---- MODULE Spec2Model ----
(***************************************************************************)
(* A model of scrape_links.py: the Takeout CSV reader, the channel URL     *)
(* normaliser, the redirect-link parser, and the scrape/persist pipeline   *)
(* of main.                                                                *)
(*                                                                         *)
(* Strings are sequences of one-character strings, so that strip, lower,   *)
(* find, urlparse, parse_qs and unquote are computed character by          *)
(* character as the Python code and its standard library compute them.     *)
(* Python's 0-based indices become 1-based; find returns 0 for "absent".   *)
(*                                                                         *)
(* A character of code point below 256 is the one-character string that    *)
(* holds it ("a", "É", "\f"); the backquote, which a TLA+ string cannot    *)
(* hold, is "<96>".  A character of code point n >= 256 is the string      *)
(* "<n>" with n in decimal: "<8364>" is the euro sign.  chr gives the      *)
(* character of a code point.                                              *)
(***************************************************************************)
EXTENDS Integers, Sequences, FiniteSets, TLC

Range(s) == {s[i] : i \in 1..Len(s)}

Min(S) == CHOOSE x \in S : \A y \in S : x <= y
Max(S) == CHOOSE x \in S : \A y \in S : x >= y

\* The absent value (Python's None): a one-element sequence that no string
\* of single characters can equal.
None == <<"<None>">>

\* The result of a call that raises ValueError.
ValueError == <<"<ValueError>">>

\* Python truthiness of an Optional[str].
truthy(s) == s /= None /\ s /= <<>>

\* s[a-1:b] with Python's clamping of out-of-range slice bounds.
Slice(s, a, b) ==
    SubSeq(s, IF a < 1 THEN 1 ELSE a, IF b > Len(s) THEN Len(s) ELSE b)

From(s, a) == Slice(s, a, Len(s))

(***************************************************************************)
(* Characters.  CHARS holds the characters of the code points 0..255 in    *)
(* order.  The tables that follow are those of the Unicode database of     *)
(* the Python build (3.11), as ranges of code points.                      *)
(***************************************************************************)
CHARS ==
    <<"<0>","","","","","","","","","\t","\n","","\f","\r","","",
      "","","","","","","","","","","","","","","","",
      " ","!","\"","#","$","%","&","'","(",")","*","+",",","-",".","/",
      "0","1","2","3","4","5","6","7","8","9",":",";","<","=",">","?",
      "@","A","B","C","D","E","F","G","H","I","J","K","L","M","N","O",
      "P","Q","R","S","T","U","V","W","X","Y","Z","[","\\","]","^","_",
      "<96>","a","b","c","d","e","f","g","h","i","j","k","l","m","n","o",
      "p","q","r","s","t","u","v","w","x","y","z","{","|","}","~","",
      "","","","","","","","","","","","","","","","",
      "","","","","","","","","","","","","","","","",
      " ","¡","¢","£","¤","¥","¦","§","¨","©","ª","«","¬","­","®","¯",
      "°","±","²","³","´","µ","¶","·","¸","¹","º","»","¼","½","¾","¿",
      "À","Á","Â","Ã","Ä","Å","Æ","Ç","È","É","Ê","Ë","Ì","Í","Î","Ï",
      "Ð","Ñ","Ò","Ó","Ô","Õ","Ö","×","Ø","Ù","Ú","Û","Ü","Ý","Þ","ß",
      "à","á","â","ã","ä","å","æ","ç","è","é","ê","ë","ì","í","î","ï",
      "ð","ñ","ò","ó","ô","õ","ö","÷","ø","ù","ú","û","ü","ý","þ","ÿ">>

chr(n) == IF n < 256 THEN CHARS[n + 1] ELSE "<" \o ToString(n) \o ">"

\* ord(c) for a character of code point below 256.
ord(c) == (CHOOSE n \in 1..256 : CHARS[n] = c) - 1

CodeRanges(ranges) == UNION {{chr(n) : n \in r[1]..r[2]} : r \in ranges}

ASCII == CodeRanges({<<0, 127>>})
ASCII_LETTERS == CodeRanges({<<65, 90>>, <<97, 122>>})
DIGITS == CodeRanges({<<48, 57>>})
HEX_DIGITS == CodeRanges({<<48, 57>>, <<65, 70>>, <<97, 102>>})

\* int(c, 16) for one hex digit
hexval(c) ==
    LET value(n) == IF n >= 97 THEN n - 87 ELSE IF n >= 65 THEN n - 55 ELSE n - 48
    IN  value(ord(c))

\* The characters str.isspace holds for, which are those str.strip removes.
WHITESPACE ==
    CodeRanges(
    {<<9,13>>,<<28,32>>,<<133,133>>,<<160,160>>,<<5760,5760>>,<<8192,8202>>,
     <<8232,8233>>,<<8239,8239>>,<<8287,8287>>,<<12288,12288>>})

\* str.isspace for one character
isspace(c) == c \in WHITESPACE

\* The one-character lower-case mappings.  A rule <<first, last, step, offset>>
\* maps every step-th code point n of first..last to n + offset.
LOWER_MAP ==
    LET map(pairs) == [c \in {p[1] : p \in pairs} |-> (CHOOSE p \in pairs : p[1] = c)[2]]
        pairs_of(rules) ==
            UNION {{<<chr(r[1] + r[3] * k), chr(r[1] + r[3] * k + r[4])>> :
                       k \in 0..((r[2] - r[1]) \div r[3])} : r \in rules}
    IN  map(pairs_of(
    {<<65,90,1,32>>,<<192,214,1,32>>,<<216,222,1,32>>,<<256,302,2,1>>,<<306,310,2,1>>,
     <<313,327,2,1>>,<<330,374,2,1>>,<<376,376,1,-121>>,<<377,381,2,1>>,<<385,385,1,210>>,
     <<386,388,2,1>>,<<390,390,1,206>>,<<391,391,1,1>>,<<393,394,1,205>>,<<395,395,1,1>>,
     <<398,398,1,79>>,<<399,399,1,202>>,<<400,400,1,203>>,<<401,401,1,1>>,<<403,403,1,205>>,
     <<404,404,1,207>>,<<406,406,1,211>>,<<407,407,1,209>>,<<408,408,1,1>>,<<412,412,1,211>>,
     <<413,413,1,213>>,<<415,415,1,214>>,<<416,420,2,1>>,<<422,422,1,218>>,<<423,423,1,1>>,
     <<425,425,1,218>>,<<428,428,1,1>>,<<430,430,1,218>>,<<431,431,1,1>>,<<433,434,1,217>>,
     <<435,437,2,1>>,<<439,439,1,219>>,<<440,440,1,1>>,<<444,444,1,1>>,<<452,452,1,2>>,
     <<453,453,1,1>>,<<455,455,1,2>>,<<456,456,1,1>>,<<458,458,1,2>>,<<459,475,2,1>>,
     <<478,494,2,1>>,<<497,497,1,2>>,<<498,500,2,1>>,<<502,502,1,-97>>,<<503,503,1,-56>>,
     <<504,542,2,1>>,<<544,544,1,-130>>,<<546,562,2,1>>,<<570,570,1,10795>>,<<571,571,1,1>>,
     <<573,573,1,-163>>,<<574,574,1,10792>>,<<577,577,1,1>>,<<579,579,1,-195>>,<<580,580,1,69>>,
     <<581,581,1,71>>,<<582,590,2,1>>,<<880,882,2,1>>,<<886,886,1,1>>,<<895,895,1,116>>,
     <<902,902,1,38>>,<<904,906,1,37>>,<<908,908,1,64>>,<<910,911,1,63>>,<<913,929,1,32>>,
     <<931,939,1,32>>,<<975,975,1,8>>,<<984,1006,2,1>>,<<1012,1012,1,-60>>,<<1015,1015,1,1>>,
     <<1017,1017,1,-7>>,<<1018,1018,1,1>>,<<1021,1023,1,-130>>,<<1024,1039,1,80>>,<<1040,1071,1,32>>,
     <<1120,1152,2,1>>,<<1162,1214,2,1>>,<<1216,1216,1,15>>,<<1217,1229,2,1>>,<<1232,1326,2,1>>,
     <<1329,1366,1,48>>,<<4256,4293,1,7264>>,<<4295,4295,1,7264>>,<<4301,4301,1,7264>>,<<5024,5103,1,38864>>,
     <<5104,5109,1,8>>,<<7312,7354,1,-3008>>,<<7357,7359,1,-3008>>,<<7680,7828,2,1>>,<<7838,7838,1,-7615>>,
     <<7840,7934,2,1>>,<<7944,7951,1,-8>>,<<7960,7965,1,-8>>,<<7976,7983,1,-8>>,<<7992,7999,1,-8>>,
     <<8008,8013,1,-8>>,<<8025,8031,2,-8>>,<<8040,8047,1,-8>>,<<8072,8079,1,-8>>,<<8088,8095,1,-8>>,
     <<8104,8111,1,-8>>,<<8120,8121,1,-8>>,<<8122,8123,1,-74>>,<<8124,8124,1,-9>>,<<8136,8139,1,-86>>,
     <<8140,8140,1,-9>>,<<8152,8153,1,-8>>,<<8154,8155,1,-100>>,<<8168,8169,1,-8>>,<<8170,8171,1,-112>>,
     <<8172,8172,1,-7>>,<<8184,8185,1,-128>>,<<8186,8187,1,-126>>,<<8188,8188,1,-9>>,<<8486,8486,1,-7517>>,
     <<8490,8490,1,-8383>>,<<8491,8491,1,-8262>>,<<8498,8498,1,28>>,<<8544,8559,1,16>>,<<8579,8579,1,1>>,
     <<9398,9423,1,26>>,<<11264,11311,1,48>>,<<11360,11360,1,1>>,<<11362,11362,1,-10743>>,<<11363,11363,1,-3814>>,
     <<11364,11364,1,-10727>>,<<11367,11371,2,1>>,<<11373,11373,1,-10780>>,<<11374,11374,1,-10749>>,<<11375,11375,1,-10783>>,
     <<11376,11376,1,-10782>>,<<11378,11378,1,1>>,<<11381,11381,1,1>>,<<11390,11391,1,-10815>>,<<11392,11490,2,1>>,
     <<11499,11501,2,1>>,<<11506,11506,1,1>>,<<42560,42604,2,1>>,<<42624,42650,2,1>>,<<42786,42798,2,1>>,
     <<42802,42862,2,1>>,<<42873,42875,2,1>>,<<42877,42877,1,-35332>>,<<42878,42886,2,1>>,<<42891,42891,1,1>>,
     <<42893,42893,1,-42280>>,<<42896,42898,2,1>>,<<42902,42920,2,1>>,<<42922,42922,1,-42308>>,<<42923,42923,1,-42319>>,
     <<42924,42924,1,-42315>>,<<42925,42925,1,-42305>>,<<42926,42926,1,-42308>>,<<42928,42928,1,-42258>>,<<42929,42929,1,-42282>>,
     <<42930,42930,1,-42261>>,<<42931,42931,1,928>>,<<42932,42946,2,1>>,<<42948,42948,1,-48>>,<<42949,42949,1,-42307>>,
     <<42950,42950,1,-35384>>,<<42951,42953,2,1>>,<<42960,42960,1,1>>,<<42966,42968,2,1>>,<<42997,42997,1,1>>,
     <<65313,65338,1,32>>,<<66560,66599,1,40>>,<<66736,66771,1,40>>,<<66928,66938,1,39>>,<<66940,66954,1,39>>,
     <<66956,66962,1,39>>,<<66964,66965,1,39>>,<<68736,68786,1,64>>,<<71840,71871,1,32>>,<<93760,93791,1,32>>,
     <<125184,125217,1,34>>}))

\* The cased characters that are not case-ignorable, and the case-ignorable
\* characters (the Final_Sigma context of str.lower).
CASED ==
    CodeRanges(
    {<<65,90>>,<<97,122>>,<<170,170>>,<<181,181>>,<<186,186>>,<<192,214>>,
     <<216,246>>,<<248,442>>,<<444,447>>,<<452,659>>,<<661,687>>,<<880,883>>,
     <<886,887>>,<<891,893>>,<<895,895>>,<<902,902>>,<<904,906>>,<<908,908>>,
     <<910,929>>,<<931,1013>>,<<1015,1153>>,<<1162,1327>>,<<1329,1366>>,<<1376,1416>>,
     <<4256,4293>>,<<4295,4295>>,<<4301,4301>>,<<4304,4346>>,<<4349,4351>>,<<5024,5109>>,
     <<5112,5117>>,<<7296,7304>>,<<7312,7354>>,<<7357,7359>>,<<7424,7467>>,<<7531,7543>>,
     <<7545,7578>>,<<7680,7957>>,<<7960,7965>>,<<7968,8005>>,<<8008,8013>>,<<8016,8023>>,
     <<8025,8025>>,<<8027,8027>>,<<8029,8029>>,<<8031,8061>>,<<8064,8116>>,<<8118,8124>>,
     <<8126,8126>>,<<8130,8132>>,<<8134,8140>>,<<8144,8147>>,<<8150,8155>>,<<8160,8172>>,
     <<8178,8180>>,<<8182,8188>>,<<8450,8450>>,<<8455,8455>>,<<8458,8467>>,<<8469,8469>>,
     <<8473,8477>>,<<8484,8484>>,<<8486,8486>>,<<8488,8488>>,<<8490,8493>>,<<8495,8500>>,
     <<8505,8505>>,<<8508,8511>>,<<8517,8521>>,<<8526,8526>>,<<8544,8575>>,<<8579,8580>>,
     <<9398,9449>>,<<11264,11387>>,<<11390,11492>>,<<11499,11502>>,<<11506,11507>>,<<11520,11557>>,
     <<11559,11559>>,<<11565,11565>>,<<42560,42605>>,<<42624,42651>>,<<42786,42863>>,<<42865,42887>>,
     <<42891,42894>>,<<42896,42954>>,<<42960,42961>>,<<42963,42963>>,<<42965,42969>>,<<42997,42998>>,
     <<43002,43002>>,<<43824,43866>>,<<43872,43880>>,<<43888,43967>>,<<64256,64262>>,<<64275,64279>>,
     <<65313,65338>>,<<65345,65370>>,<<66560,66639>>,<<66736,66771>>,<<66776,66811>>,<<66928,66938>>,
     <<66940,66954>>,<<66956,66962>>,<<66964,66965>>,<<66967,66977>>,<<66979,66993>>,<<66995,67001>>,
     <<67003,67004>>,<<68736,68786>>,<<68800,68850>>,<<71840,71903>>,<<93760,93823>>,<<119808,119892>>,
     <<119894,119964>>,<<119966,119967>>,<<119970,119970>>,<<119973,119974>>,<<119977,119980>>,<<119982,119993>>,
     <<119995,119995>>,<<119997,120003>>,<<120005,120069>>,<<120071,120074>>,<<120077,120084>>,<<120086,120092>>,
     <<120094,120121>>,<<120123,120126>>,<<120128,120132>>,<<120134,120134>>,<<120138,120144>>,<<120146,120485>>,
     <<120488,120512>>,<<120514,120538>>,<<120540,120570>>,<<120572,120596>>,<<120598,120628>>,<<120630,120654>>,
     <<120656,120686>>,<<120688,120712>>,<<120714,120744>>,<<120746,120770>>,<<120772,120779>>,<<122624,122633>>,
     <<122635,122654>>,<<125184,125251>>,<<127280,127305>>,<<127312,127337>>,<<127344,127369>>})

CASE_IGNORABLE ==
    CodeRanges(
    {<<39,39>>,<<46,46>>,<<58,58>>,<<94,94>>,<<96,96>>,<<168,168>>,
     <<173,173>>,<<175,175>>,<<180,180>>,<<183,184>>,<<688,879>>,<<884,885>>,
     <<890,890>>,<<900,901>>,<<903,903>>,<<1155,1161>>,<<1369,1369>>,<<1375,1375>>,
     <<1425,1469>>,<<1471,1471>>,<<1473,1474>>,<<1476,1477>>,<<1479,1479>>,<<1524,1524>>,
     <<1536,1541>>,<<1552,1562>>,<<1564,1564>>,<<1600,1600>>,<<1611,1631>>,<<1648,1648>>,
     <<1750,1757>>,<<1759,1768>>,<<1770,1773>>,<<1807,1807>>,<<1809,1809>>,<<1840,1866>>,
     <<1958,1968>>,<<2027,2037>>,<<2042,2042>>,<<2045,2045>>,<<2070,2093>>,<<2137,2139>>,
     <<2184,2184>>,<<2192,2193>>,<<2200,2207>>,<<2249,2306>>,<<2362,2362>>,<<2364,2364>>,
     <<2369,2376>>,<<2381,2381>>,<<2385,2391>>,<<2402,2403>>,<<2417,2417>>,<<2433,2433>>,
     <<2492,2492>>,<<2497,2500>>,<<2509,2509>>,<<2530,2531>>,<<2558,2558>>,<<2561,2562>>,
     <<2620,2620>>,<<2625,2626>>,<<2631,2632>>,<<2635,2637>>,<<2641,2641>>,<<2672,2673>>,
     <<2677,2677>>,<<2689,2690>>,<<2748,2748>>,<<2753,2757>>,<<2759,2760>>,<<2765,2765>>,
     <<2786,2787>>,<<2810,2815>>,<<2817,2817>>,<<2876,2876>>,<<2879,2879>>,<<2881,2884>>,
     <<2893,2893>>,<<2901,2902>>,<<2914,2915>>,<<2946,2946>>,<<3008,3008>>,<<3021,3021>>,
     <<3072,3072>>,<<3076,3076>>,<<3132,3132>>,<<3134,3136>>,<<3142,3144>>,<<3146,3149>>,
     <<3157,3158>>,<<3170,3171>>,<<3201,3201>>,<<3260,3260>>,<<3263,3263>>,<<3270,3270>>,
     <<3276,3277>>,<<3298,3299>>,<<3328,3329>>,<<3387,3388>>,<<3393,3396>>,<<3405,3405>>,
     <<3426,3427>>,<<3457,3457>>,<<3530,3530>>,<<3538,3540>>,<<3542,3542>>,<<3633,3633>>,
     <<3636,3642>>,<<3654,3662>>,<<3761,3761>>,<<3764,3772>>,<<3782,3782>>,<<3784,3789>>,
     <<3864,3865>>,<<3893,3893>>,<<3895,3895>>,<<3897,3897>>,<<3953,3966>>,<<3968,3972>>,
     <<3974,3975>>,<<3981,3991>>,<<3993,4028>>,<<4038,4038>>,<<4141,4144>>,<<4146,4151>>,
     <<4153,4154>>,<<4157,4158>>,<<4184,4185>>,<<4190,4192>>,<<4209,4212>>,<<4226,4226>>,
     <<4229,4230>>,<<4237,4237>>,<<4253,4253>>,<<4348,4348>>,<<4957,4959>>,<<5906,5908>>,
     <<5938,5939>>,<<5970,5971>>,<<6002,6003>>,<<6068,6069>>,<<6071,6077>>,<<6086,6086>>,
     <<6089,6099>>,<<6103,6103>>,<<6109,6109>>,<<6155,6159>>,<<6211,6211>>,<<6277,6278>>,
     <<6313,6313>>,<<6432,6434>>,<<6439,6440>>,<<6450,6450>>,<<6457,6459>>,<<6679,6680>>,
     <<6683,6683>>,<<6742,6742>>,<<6744,6750>>,<<6752,6752>>,<<6754,6754>>,<<6757,6764>>,
     <<6771,6780>>,<<6783,6783>>,<<6823,6823>>,<<6832,6862>>,<<6912,6915>>,<<6964,6964>>,
     <<6966,6970>>,<<6972,6972>>,<<6978,6978>>,<<7019,7027>>,<<7040,7041>>,<<7074,7077>>,
     <<7080,7081>>,<<7083,7085>>,<<7142,7142>>,<<7144,7145>>,<<7149,7149>>,<<7151,7153>>,
     <<7212,7219>>,<<7222,7223>>,<<7288,7293>>,<<7376,7378>>,<<7380,7392>>,<<7394,7400>>,
     <<7405,7405>>,<<7412,7412>>,<<7416,7417>>,<<7468,7530>>,<<7544,7544>>,<<7579,7679>>,
     <<8125,8125>>,<<8127,8129>>,<<8141,8143>>,<<8157,8159>>,<<8173,8175>>,<<8189,8190>>,
     <<8203,8207>>,<<8216,8217>>,<<8228,8228>>,<<8231,8231>>,<<8234,8238>>,<<8288,8292>>,
     <<8294,8303>>,<<8305,8305>>,<<8319,8319>>,<<8336,8348>>,<<8400,8432>>,<<11388,11389>>,
     <<11503,11505>>,<<11631,11631>>,<<11647,11647>>,<<11744,11775>>,<<11823,11823>>,<<12293,12293>>,
     <<12330,12333>>,<<12337,12341>>,<<12347,12347>>,<<12441,12446>>,<<12540,12542>>,<<40981,40981>>,
     <<42232,42237>>,<<42508,42508>>,<<42607,42610>>,<<42612,42621>>,<<42623,42623>>,<<42652,42655>>,
     <<42736,42737>>,<<42752,42785>>,<<42864,42864>>,<<42888,42890>>,<<42994,42996>>,<<43000,43001>>,
     <<43010,43010>>,<<43014,43014>>,<<43019,43019>>,<<43045,43046>>,<<43052,43052>>,<<43204,43205>>,
     <<43232,43249>>,<<43263,43263>>,<<43302,43309>>,<<43335,43345>>,<<43392,43394>>,<<43443,43443>>,
     <<43446,43449>>,<<43452,43453>>,<<43471,43471>>,<<43493,43494>>,<<43561,43566>>,<<43569,43570>>,
     <<43573,43574>>,<<43587,43587>>,<<43596,43596>>,<<43632,43632>>,<<43644,43644>>,<<43696,43696>>,
     <<43698,43700>>,<<43703,43704>>,<<43710,43711>>,<<43713,43713>>,<<43741,43741>>,<<43756,43757>>,
     <<43763,43764>>,<<43766,43766>>,<<43867,43871>>,<<43881,43883>>,<<44005,44005>>,<<44008,44008>>,
     <<44013,44013>>,<<64286,64286>>,<<64434,64450>>,<<65024,65039>>,<<65043,65043>>,<<65056,65071>>,
     <<65106,65106>>,<<65109,65109>>,<<65279,65279>>,<<65287,65287>>,<<65294,65294>>,<<65306,65306>>,
     <<65342,65342>>,<<65344,65344>>,<<65392,65392>>,<<65438,65439>>,<<65507,65507>>,<<65529,65531>>,
     <<66045,66045>>,<<66272,66272>>,<<66422,66426>>,<<67456,67461>>,<<67463,67504>>,<<67506,67514>>,
     <<68097,68099>>,<<68101,68102>>,<<68108,68111>>,<<68152,68154>>,<<68159,68159>>,<<68325,68326>>,
     <<68900,68903>>,<<69291,69292>>,<<69446,69456>>,<<69506,69509>>,<<69633,69633>>,<<69688,69702>>,
     <<69744,69744>>,<<69747,69748>>,<<69759,69761>>,<<69811,69814>>,<<69817,69818>>,<<69821,69821>>,
     <<69826,69826>>,<<69837,69837>>,<<69888,69890>>,<<69927,69931>>,<<69933,69940>>,<<70003,70003>>,
     <<70016,70017>>,<<70070,70078>>,<<70089,70092>>,<<70095,70095>>,<<70191,70193>>,<<70196,70196>>,
     <<70198,70199>>,<<70206,70206>>,<<70367,70367>>,<<70371,70378>>,<<70400,70401>>,<<70459,70460>>,
     <<70464,70464>>,<<70502,70508>>,<<70512,70516>>,<<70712,70719>>,<<70722,70724>>,<<70726,70726>>,
     <<70750,70750>>,<<70835,70840>>,<<70842,70842>>,<<70847,70848>>,<<70850,70851>>,<<71090,71093>>,
     <<71100,71101>>,<<71103,71104>>,<<71132,71133>>,<<71219,71226>>,<<71229,71229>>,<<71231,71232>>,
     <<71339,71339>>,<<71341,71341>>,<<71344,71349>>,<<71351,71351>>,<<71453,71455>>,<<71458,71461>>,
     <<71463,71467>>,<<71727,71735>>,<<71737,71738>>,<<71995,71996>>,<<71998,71998>>,<<72003,72003>>,
     <<72148,72151>>,<<72154,72155>>,<<72160,72160>>,<<72193,72202>>,<<72243,72248>>,<<72251,72254>>,
     <<72263,72263>>,<<72273,72278>>,<<72281,72283>>,<<72330,72342>>,<<72344,72345>>,<<72752,72758>>,
     <<72760,72765>>,<<72767,72767>>,<<72850,72871>>,<<72874,72880>>,<<72882,72883>>,<<72885,72886>>,
     <<73009,73014>>,<<73018,73018>>,<<73020,73021>>,<<73023,73029>>,<<73031,73031>>,<<73104,73105>>,
     <<73109,73109>>,<<73111,73111>>,<<73459,73460>>,<<78896,78904>>,<<92912,92916>>,<<92976,92982>>,
     <<92992,92995>>,<<94031,94031>>,<<94095,94111>>,<<94176,94177>>,<<94179,94180>>,<<110576,110579>>,
     <<110581,110587>>,<<110589,110590>>,<<113821,113822>>,<<113824,113827>>,<<118528,118573>>,<<118576,118598>>,
     <<119143,119145>>,<<119155,119170>>,<<119173,119179>>,<<119210,119213>>,<<119362,119364>>,<<121344,121398>>,
     <<121403,121452>>,<<121461,121461>>,<<121476,121476>>,<<121499,121503>>,<<121505,121519>>,<<122880,122886>>,
     <<122888,122904>>,<<122907,122913>>,<<122915,122916>>,<<122918,122922>>,<<123184,123197>>,<<123566,123566>>,
     <<123628,123631>>,<<125136,125142>>,<<125252,125259>>,<<127995,127999>>,<<917505,917505>>,<<917536,917631>>,
     <<917760,917999>>})

\* Whether the capital sigma at s[i] follows a cased character and is not
\* followed by one, case-ignorable characters skipped on both sides.
final_sigma(s, i) ==
    LET cased_around(before, after) ==
            /\ before /= {}
            /\ s[Max(before)] \in CASED
            /\ (after = {} \/ s[Min(after)] \notin CASED)
        around(ignorable) ==
            cased_around({j \in 1..(i - 1) : s[j] \notin ignorable},
                         {j \in (i + 1)..Len(s) : s[j] \notin ignorable})
    IN  around(CASE_IGNORABLE)

\* str.lower for one character: the characters it becomes.  "<304>" is the
\* capital I with a dot above, which becomes "i" and the combining dot above.
lower_char(c) ==
    LET mapped(map) == IF c \in DOMAIN map THEN <<map[c]>> ELSE <<c>>
    IN  IF c = "<304>" THEN <<"i", "<775>">>
        ELSE mapped(LOWER_MAP)

\* sep.join(parts)
RECURSIVE join(_, _)
join(parts, sep) ==
    IF parts = <<>> THEN <<>>
    ELSE IF Len(parts) = 1 THEN parts[1]
    ELSE parts[1] \o sep \o join(Tail(parts), sep)

\* str.lower.  The capital sigma "<931>" becomes the final sigma "<962>"
\* where final_sigma holds and the small sigma "<963>" elsewhere.
lower(s) ==
    LET flat(pieces) ==
            IF \A i \in 1..Len(pieces) : Len(pieces[i]) = 1
            THEN [i \in 1..Len(pieces) |-> pieces[i][1]]
            ELSE join(pieces, <<>>)
    IN  flat([i \in 1..Len(s) |->
                 IF s[i] = "<931>"
                 THEN <<IF final_sigma(s, i) THEN "<962>" ELSE "<963>">>
                 ELSE lower_char(s[i])])

\* str.lstrip(chars) and str.strip(chars)
lstrip_chars(s, chars) ==
    LET kept(keep) == IF keep = {} THEN <<>> ELSE SubSeq(s, Min(keep), Len(s))
    IN  kept({i \in 1..Len(s) : s[i] \notin chars})

strip_chars(s, chars) ==
    LET kept(keep) == IF keep = {} THEN <<>> ELSE SubSeq(s, Min(keep), Max(keep))
    IN  kept({i \in 1..Len(s) : s[i] \notin chars})

\* str.strip()
strip(s) == strip_chars(s, WHITESPACE)

\* str.rstrip(c)
rstrip_char(s, c) ==
    LET kept(keep) == IF keep = {} THEN <<>> ELSE SubSeq(s, 1, Max(keep))
    IN  kept({i \in 1..Len(s) : s[i] /= c})

\* str.replace(a, b) for single characters, and str.replace(c, "") for
\* each c of chars
replace_char(s, a, b) == [i \in 1..Len(s) |-> IF s[i] = a THEN b ELSE s[i]]
remove_chars(s, chars) == SelectSeq(s, LAMBDA c : c \notin chars)

startswith(s, p) == Slice(s, 1, Len(p)) = p
endswith(s, p) == Len(p) <= Len(s) /\ From(s, Len(s) - Len(p) + 1) = p

\* str.find(sub, start): the least position >= start where sub occurs, 0 if none.
find(s, sub, start) ==
    LET least(hits) == IF hits = {} THEN 0 ELSE Min(hits)
    IN  least({i \in start..(Len(s) - Len(sub) + 1) : SubSeq(s, i, i + Len(sub) - 1) = sub})

\* str.rfind(sub)
rfind(s, sub) ==
    LET greatest(hits) == IF hits = {} THEN 0 ELSE Max(hits)
    IN  greatest({i \in 1..(Len(s) - Len(sub) + 1) : SubSeq(s, i, i + Len(sub) - 1) = sub})

\* `sub in s`
contains(s, sub) == find(s, sub, 1) /= 0

\* str.split(sep) for a one-character separator
RECURSIVE split(_, _)
split(s, sep) ==
    LET at(i) == IF i = 0 THEN <<s>>
                 ELSE <<Slice(s, 1, i - 1)>> \o split(From(s, i + 1), sep)
    IN  at(find(s, <<sep>>, 1))

(***************************************************************************)
(* Module constants (scrape_links.py 24-26).                               *)
(***************************************************************************)
YOUTUBE_ORIGIN ==
    <<"h","t","t","p","s",":","/","/","w","w","w",".","y","o","u","t","u","b","e",".","c","o","m">>
REDIRECT_PREFIX == YOUTUBE_ORIGIN \o <<"/","r","e","d","i","r","e","c","t">>

HTTPS == <<"h","t","t","p","s">>
WWW_YOUTUBE_COM == <<"w","w","w",".","y","o","u","t","u","b","e",".","c","o","m">>
YOUTUBE == <<"y","o","u","t","u","b","e">>
SLASH_ABOUT == <<"/","a","b","o","u","t">>
SLASH_CHANNEL_SLASH == <<"/","c","h","a","n","n","e","l","/">>

(***************************************************************************)
(* ipaddress, as far as urllib.parse uses it on a bracketed host.          *)
(***************************************************************************)
\* int(octet_str, 10) for a string of decimal digits
RECURSIVE octet_int(_)
octet_int(octet_str) ==
    IF octet_str = <<>> THEN 0
    ELSE 10 * octet_int(Slice(octet_str, 1, Len(octet_str) - 1))
           + hexval(octet_str[Len(octet_str)])

\* Whether ipaddress.IPv4Address(address) is constructed: four octets that
\* _parse_octet accepts.
IPv4Address_ok(address) ==
    /\ "/" \notin Range(address)
    /\ address /= <<>>
    /\ \E octets \in {split(address, ".")} :
         /\ Len(octets) = 4
         /\ \A i \in 1..4 :
              /\ octets[i] /= <<>>
              /\ \A k \in 1..Len(octets[i]) : octets[i][k] \in DIGITS
              /\ Len(octets[i]) <= 3
              /\ (octets[i] = <<"0">> \/ octets[i][1] /= "0")
              /\ octet_int(octets[i]) <= 255

\* '%x' % n
RECURSIVE hex_str(_)
hex_str(n) ==
    LET digit(d) == chr(IF d < 10 THEN 48 + d ELSE 87 + d)
    IN  IF n < 16 THEN <<digit(n)>>
        ELSE Append(hex_str(n \div 16), digit(n % 16))

\* Whether ipaddress._BaseV6._ip_int_from_string accepts the address.  A
\* dotted last part is an IPv4 address, replaced by its two hextets; at
\* most one '::' stands for the hextets left out; parts_hi hextets before it
\* and parts_lo after it are parsed, each as _parse_hextet accepts it.
ip_int_from_string_ok(ip_str) ==
    /\ ip_str /= <<>>
    /\ \E split_parts \in {split(ip_str, ":")} :
         /\ Len(split_parts) >= 3
         /\ \E dotted \in {"." \in Range(split_parts[Len(split_parts)])} :
              /\ (dotted => IPv4Address_ok(split_parts[Len(split_parts)]))
              /\ \E octets \in {IF dotted THEN split(split_parts[Len(split_parts)], ".")
                                ELSE <<>>} :
                 \E parts \in
                      {IF dotted
                       THEN Slice(split_parts, 1, Len(split_parts) - 1)
                              \o [k \in 1..2 |->
                                     hex_str(256 * octet_int(octets[2 * k - 1])
                                               + octet_int(octets[2 * k]))]
                       ELSE split_parts} :
                   /\ Len(parts) <= 9
                   /\ \E skips \in {{i \in 2..(Len(parts) - 1) : parts[i] = <<>>}} :
                        /\ Cardinality(skips) <= 1
                        /\ \E skip_index \in {IF skips = {} THEN 0 ELSE Min(skips)} :
                           \E count \in
                                {IF skips /= {}
                                 THEN [raises |->
                                           \/ (parts[1] = <<>> /\ skip_index - 2 /= 0)
                                           \/ (parts[Len(parts)] = <<>>
                                                 /\ Len(parts) - skip_index - 1 /= 0),
                                       parts_hi |-> IF parts[1] = <<>> THEN 0
                                                    ELSE skip_index - 1,
                                       parts_lo |-> IF parts[Len(parts)] = <<>> THEN 0
                                                    ELSE Len(parts) - skip_index,
                                       skipped |-> TRUE]
                                 ELSE [raises |-> \/ Len(parts) /= 8
                                                  \/ parts[1] = <<>>
                                                  \/ parts[Len(parts)] = <<>>,
                                       parts_hi |-> Len(parts),
                                       parts_lo |-> 0,
                                       skipped |-> FALSE]} :
                             /\ ~count.raises
                             /\ (count.skipped
                                   => 8 - (count.parts_hi + count.parts_lo) >= 1)
                             /\ \A i \in (1..count.parts_hi)
                                           \cup ((Len(parts) - count.parts_lo + 1)..Len(parts)) :
                                    /\ \A k \in 1..Len(parts[i]) : parts[i][k] \in HEX_DIGITS
                                    /\ Len(parts[i]) <= 4
                                    /\ parts[i] /= <<>>

\* Whether ipaddress.IPv6Address(address) is constructed: the scope id
\* after a '%' is split off first.
IPv6Address_ok(address) ==
    /\ "/" \notin Range(address)
    /\ \E p \in {find(address, <<"%">>, 1)} :
         /\ (p /= 0 => /\ From(address, p + 1) /= <<>>
                       /\ "%" \notin Range(From(address, p + 1)))
         /\ ip_int_from_string_ok(IF p = 0 THEN address ELSE Slice(address, 1, p - 1))

(***************************************************************************)
(* urllib.parse, as far as the program uses it.                            *)
(***************************************************************************)
scheme_chars == ASCII_LETTERS \cup DIGITS \cup {"+", "-", "."}

uses_relative ==
    {<<>>, <<"f","t","p">>, <<"h","t","t","p">>,
     <<"g","o","p","h","e","r">>, <<"n","n","t","p">>, <<"i","m","a","p">>,
     <<"w","a","i","s">>, <<"f","i","l","e">>, <<"h","t","t","p","s">>,
     <<"s","h","t","t","p">>, <<"m","m","s">>,
     <<"p","r","o","s","p","e","r","o">>, <<"r","t","s","p">>,
     <<"r","t","s","p","s">>, <<"r","t","s","p","u">>, <<"s","f","t","p">>,
     <<"s","v","n">>, <<"s","v","n","+","s","s","h">>, <<"w","s">>,
     <<"w","s","s">>}

uses_netloc ==
    {<<>>, <<"f","t","p">>, <<"h","t","t","p">>,
     <<"g","o","p","h","e","r">>, <<"n","n","t","p">>,
     <<"t","e","l","n","e","t">>, <<"i","m","a","p">>, <<"w","a","i","s">>,
     <<"f","i","l","e">>, <<"m","m","s">>, <<"h","t","t","p","s">>,
     <<"s","h","t","t","p">>, <<"s","n","e","w","s">>,
     <<"p","r","o","s","p","e","r","o">>, <<"r","t","s","p">>,
     <<"r","t","s","p","s">>, <<"r","t","s","p","u">>,
     <<"r","s","y","n","c">>, <<"s","v","n">>,
     <<"s","v","n","+","s","s","h">>, <<"s","f","t","p">>, <<"n","f","s">>,
     <<"g","i","t">>, <<"g","i","t","+","s","s","h">>, <<"w","s">>,
     <<"w","s","s">>}

uses_params ==
    {<<>>, <<"f","t","p">>, <<"h","d","l">>,
     <<"p","r","o","s","p","e","r","o">>, <<"h","t","t","p">>,
     <<"i","m","a","p">>, <<"h","t","t","p","s">>, <<"s","h","t","t","p">>,
     <<"r","t","s","p">>, <<"r","t","s","p","s">>, <<"r","t","s","p","u">>,
     <<"s","i","p">>, <<"s","i","p","s">>, <<"m","m","s">>,
     <<"s","f","t","p">>, <<"t","e","l">>}

\* The characters urlsplit strips from the front of the URL, and those it
\* removes wherever they stand.
WHATWG_C0_CONTROL_OR_SPACE == CodeRanges({<<0, 32>>})
UNSAFE_URL_BYTES_TO_REMOVE == {"\t", "\r", "\n"}

\* urllib.parse._checknetloc raises: the netloc holds a character whose NFKC
\* normalisation holds one of / ? # @ :
checknetloc_raises(netloc) ==
    \E i \in 1..Len(netloc) :
        netloc[i] \in {chr(n) : n \in
            {8263, 8264, 8265, 8448, 8449, 8453, 8454, 10868, 65043, 65046,
             65109, 65110, 65119, 65131, 65283, 65295, 65306, 65311, 65312}}

\* re.match(r"\Av[a-fA-F0-9]+\..+\Z", hostname)
ipvfuture_match(hostname) ==
    /\ startswith(hostname, <<"v">>)
    /\ \E p \in {find(hostname, <<".">>, 1)} :
         /\ p >= 3
         /\ \A i \in 2..(p - 1) : hostname[i] \in HEX_DIGITS
         /\ p < Len(hostname)
         /\ \A i \in (p + 1)..Len(hostname) : hostname[i] /= "\n"

\* urllib.parse._check_bracketed_host raises: the host is neither an
\* IPvFuture nor an IPv6 address.
check_bracketed_host_raises(hostname) ==
    IF startswith(hostname, <<"v">>)
    THEN ~ipvfuture_match(hostname)
    ELSE IPv4Address_ok(hostname) \/ ~IPv6Address_ok(hostname)

\* netloc.partition('[')[2].partition(']')[0]
bracketed_host(netloc) ==
    LET upto(rest, close) == IF close = 0 THEN rest ELSE Slice(rest, 1, close - 1)
        after(rest) == upto(rest, find(rest, <<"]">>, 1))
    IN  after(From(netloc, find(netloc, <<"[">>, 1) + 1))

\* The ValueError of urlsplit: an unbalanced bracket in the netloc, a
\* bracketed host that is no address, or a netloc _checknetloc rejects.
netloc_raises(netloc) ==
    IF ("[" \in Range(netloc)) /= ("]" \in Range(netloc)) THEN TRUE
    ELSE IF "[" \in Range(netloc) /\ check_bracketed_host_raises(bracketed_host(netloc))
    THEN TRUE
    ELSE checknetloc_raises(netloc)

\* urllib.parse._splitnetloc(url, 2): the netloc ends at the first of / ? #.
splitnetloc_end(url) ==
    LET least(delims) == IF delims = {} THEN Len(url) + 1 ELSE Min(delims)
    IN  least({i \in 3..Len(url) : url[i] \in {"/", "?", "#"}})

\* urllib.parse.urlsplit(url, scheme); error is "ValueError" when it raises.
urlsplit(url, scheme) ==
    LET at_query(sch, netloc, rest, fragment, q) ==
            [scheme |-> sch, netloc |-> netloc,
             path |-> IF q = 0 THEN rest ELSE Slice(rest, 1, q - 1),
             query |-> IF q = 0 THEN <<>> ELSE From(rest, q + 1),
             fragment |-> fragment,
             error |-> ""]
        at_fragment(sch, netloc, rest, h) ==
            at_query(sch, netloc,
                     IF h = 0 THEN rest ELSE Slice(rest, 1, h - 1),
                     IF h = 0 THEN <<>> ELSE From(rest, h + 1),
                     find(IF h = 0 THEN rest ELSE Slice(rest, 1, h - 1), <<"?">>, 1))
        at_netloc(sch, rest, has_netloc, d) ==
            at_fragment(sch,
                        IF has_netloc THEN Slice(rest, 3, d - 1) ELSE <<>>,
                        IF has_netloc THEN From(rest, d) ELSE rest,
                        find(IF has_netloc THEN From(rest, d) ELSE rest, <<"#">>, 1))
        at_colon(u, s, i, has_scheme) ==
            at_netloc(IF has_scheme THEN lower(Slice(u, 1, i - 1)) ELSE s,
                      IF has_scheme THEN From(u, i + 1) ELSE u,
                      Slice(IF has_scheme THEN From(u, i + 1) ELSE u, 1, 2) = <<"/", "/">>,
                      splitnetloc_end(IF has_scheme THEN From(u, i + 1) ELSE u))
        colon(u, s, i) ==
            at_colon(u, s, i, /\ i > 1
                              /\ u[1] \in ASCII_LETTERS
                              /\ \A k \in 1..(i - 1) : u[k] \in scheme_chars)
        cleaned(u, s) == colon(u, s, find(u, <<":">>, 1))
        checked(parts) ==
            [parts EXCEPT !.error = IF netloc_raises(parts.netloc) THEN "ValueError" ELSE ""]
    IN  checked(cleaned(remove_chars(lstrip_chars(url, WHATWG_C0_CONTROL_OR_SPACE),
                                     UNSAFE_URL_BYTES_TO_REMOVE),
                        remove_chars(strip_chars(scheme, WHATWG_C0_CONTROL_OR_SPACE),
                                     UNSAFE_URL_BYTES_TO_REMOVE)))

\* urllib.parse._splitparams(url): <<path, params>>
splitparams(url) ==
    LET at(i) == IF i = 0 THEN <<url, <<>>>>
                 ELSE <<Slice(url, 1, i - 1), From(url, i + 1)>>
    IN  at(IF contains(url, <<"/">>)
           THEN find(url, <<";">>, rfind(url, <<"/">>))
           ELSE find(url, <<";">>, 1))

\* urllib.parse.urlparse(url, scheme)
urlparse(url, scheme) ==
    LET with_params(s, pp) ==
            [scheme |-> s.scheme, netloc |-> s.netloc, path |-> pp[1],
             params |-> pp[2], query |-> s.query, fragment |-> s.fragment,
             error |-> s.error]
        with_split(s) ==
            with_params(s, IF s.scheme \in uses_params /\ contains(s.path, <<";">>)
                           THEN splitparams(s.path)
                           ELSE <<s.path, <<>>>>)
    IN  with_split(urlsplit(url, scheme))

\* urllib.parse.urlunparse(components)
urlunparse(p) ==
    LET unsplit(url) ==
            (IF p.scheme /= <<>> THEN p.scheme \o <<":">> ELSE <<>>)
              \o (IF \/ p.netloc /= <<>>
                     \/ (p.scheme /= <<>> /\ p.scheme \in uses_netloc
                           /\ Slice(url, 1, 2) /= <<"/", "/">>)
                  THEN <<"/", "/">> \o p.netloc
                         \o (IF url /= <<>> /\ url[1] /= "/" THEN <<"/">> ELSE <<>>)
                  ELSE <<>>)
              \o url
              \o (IF p.query /= <<>> THEN <<"?">> \o p.query ELSE <<>>)
              \o (IF p.fragment /= <<>> THEN <<"#">> \o p.fragment ELSE <<>>)
    IN  unsplit(IF p.params /= <<>> THEN p.path \o <<";">> \o p.params ELSE p.path)

\* urljoin's loop over the path segments: '..' pops, '.' is dropped.
RECURSIVE resolve_segments(_, _)
resolve_segments(segments, resolved) ==
    IF segments = <<>> THEN resolved
    ELSE IF Head(segments) = <<".", ".">>
    THEN resolve_segments(Tail(segments), Slice(resolved, 1, Len(resolved) - 1))
    ELSE IF Head(segments) = <<".">>
    THEN resolve_segments(Tail(segments), resolved)
    ELSE resolve_segments(Tail(segments), Append(resolved, Head(segments)))

\* segments[1:-1] = filter(None, segments[1:-1])
filter_middle(segments) ==
    IF Len(segments) <= 2 THEN segments
    ELSE <<segments[1]>>
           \o SelectSeq(Slice(segments, 2, Len(segments) - 1), LAMBDA g : g /= <<>>)
           \o <<segments[Len(segments)]>>

\* urllib.parse.urljoin(base, url); ValueError when a parse raises.
urljoin(base, url) ==
    IF base = <<>> THEN url
    ELSE IF url = <<>> THEN base
    ELSE
    LET or_slash(path) == IF path = <<>> THEN <<"/">> ELSE path
        close(segments, resolved0) ==
            IF segments[Len(segments)] \in {<<".">>, <<".", ".">>}
            THEN Append(resolved0, <<>>) ELSE resolved0
        resolved_path(segments) ==
            or_slash(join(close(segments, resolve_segments(segments, <<>>)), <<"/">>))
        base_parts(bp0) ==
            IF bp0[Len(bp0)] /= <<>> THEN Slice(bp0, 1, Len(bp0) - 1) ELSE bp0
        components(b, u, netloc) ==
            IF u.scheme \in uses_netloc /\ u.netloc /= <<>> THEN u
            ELSE IF u.path = <<>> /\ u.params = <<>>
            THEN [scheme |-> u.scheme, netloc |-> netloc,
                  path |-> b.path, params |-> b.params,
                  query |-> IF u.query = <<>> THEN b.query ELSE u.query,
                  fragment |-> u.fragment]
            ELSE [scheme |-> u.scheme, netloc |-> netloc,
                  path |-> resolved_path(
                               IF Slice(u.path, 1, 1) = <<"/">>
                               THEN split(u.path, "/")
                               ELSE filter_middle(base_parts(split(b.path, "/"))
                                                    \o split(u.path, "/"))),
                  params |-> u.params, query |-> u.query,
                  fragment |-> u.fragment]
        resolve(b, u) ==
            IF b.error /= "" \/ u.error /= "" THEN ValueError
            ELSE IF u.scheme /= b.scheme \/ u.scheme \notin uses_relative THEN url
            ELSE urlunparse(components(b, u, IF u.scheme \in uses_netloc THEN b.netloc
                                             ELSE u.netloc))
        with_base(b) == resolve(b, urlparse(url, b.scheme))
    IN  with_base(urlparse(base, <<>>))

(***************************************************************************)
(* normalise_channel_url (scrape_links.py 82-101).                         *)
(***************************************************************************)
\* Lines 85-91: the parse of the stripped URL, a URL without a netloc being
\* resolved against the YouTube origin first; error is "ValueError" when
\* urlparse or urljoin raises.
resolved_parse(url) ==
    LET resolve(parsed, joined, reparsed) ==
            IF parsed.error /= "" THEN parsed
            ELSE IF parsed.netloc = <<>>
            THEN (IF joined = ValueError THEN [parsed EXCEPT !.error = "ValueError"]
                  ELSE reparsed)
            ELSE IF parsed.scheme = <<>>
            THEN [parsed EXCEPT !.scheme = HTTPS]
            ELSE parsed
        parse(stripped, joined) ==
            resolve(urlparse(stripped, HTTPS), joined, urlparse(joined, <<>>))
    IN  parse(strip(url), urljoin(YOUTUBE_ORIGIN, strip(url)))

\* Lines 95-97: the path without trailing slashes and one trailing "/about".
channel_path(parsed) ==
    LET without_about(path) ==
            IF endswith(path, SLASH_ABOUT)
            THEN Slice(path, 1, Len(path) - Len(SLASH_ABOUT))
            ELSE path
    IN  without_about(rstrip_char(parsed.path, "/"))

\* The forced canonical form of line 100.
channel_id_url(channel_id) == YOUTUBE_ORIGIN \o <<"/","c","h","a","n","n","e","l","/">> \o strip(channel_id)

\* normalise_channel_url without the host test of lines 92-94.
normalise_channel_url_any_host(url, channel_id) ==
    IF ~truthy(url) THEN None
    ELSE
    LET canonical(path) ==
            IF truthy(channel_id) /\ ~contains(path, SLASH_CHANNEL_SLASH)
            THEN channel_id_url(channel_id)
            ELSE YOUTUBE_ORIGIN \o path
        of_parsed(parsed) ==
            IF parsed.error /= "" THEN ValueError
            ELSE canonical(channel_path(parsed))
    IN  of_parsed(resolved_parse(url))

\* normalise_channel_url(url, channel_id): the canonical channel URL, None,
\* or ValueError when urllib.parse rejects the URL.
normalise_channel_url(url, channel_id) ==
    IF ~truthy(url) THEN None
    ELSE
    LET canonical(netloc, path) ==
            IF ~contains(netloc, YOUTUBE) THEN None
            ELSE IF truthy(channel_id) /\ ~contains(path, SLASH_CHANNEL_SLASH)
            THEN channel_id_url(channel_id)
            ELSE urlunparse([scheme |-> HTTPS, netloc |-> WWW_YOUTUBE_COM,
                             path |-> path, params |-> <<>>, query |-> <<>>,
                             fragment |-> <<>>])
        of_parsed(parsed) ==
            IF parsed.error /= "" THEN ValueError
            ELSE canonical(lower(parsed.netloc), channel_path(parsed))
    IN  of_parsed(resolved_parse(url))

\* Subscription.about_url (scrape_links.py 39-44): the about URL, or
\* ValueError, which line 43 raises when there is no base URL and line 41
\* lets through when normalise_channel_url raises it.
about_url(sub) ==
    LET about(base_url) ==
            IF base_url = ValueError \/ ~truthy(base_url) THEN ValueError
            ELSE base_url \o SLASH_ABOUT
    IN  about(normalise_channel_url(sub.url, sub.channel_id))

(***************************************************************************)
(* urllib.parse.unquote and parse_qs.                                      *)
(***************************************************************************)
\* urllib.parse.unquote_to_bytes on ASCII text: the bytes, a '%' followed
\* by two hex digits being the byte of that value, any other '%' staying.
unquote_to_bytes(string) ==
    LET escape(i) ==
            /\ string[i] = "%"
            /\ i + 2 <= Len(string)
            /\ string[i + 1] \in HEX_DIGITS
            /\ string[i + 2] \in HEX_DIGITS
        in_escape(i) == (i > 1 /\ escape(i - 1)) \/ (i > 2 /\ escape(i - 2))
        byte(i) ==
            IF escape(i) THEN 16 * hexval(string[i + 1]) + hexval(string[i + 2])
            ELSE ord(string[i])
        bytes(starts) == [k \in 1..Len(starts) |-> byte(starts[k])]
    IN  bytes(SelectSeq([i \in 1..Len(string) |-> i], LAMBDA i : ~in_escape(i)))

\* bytes.decode("utf-8", "replace"): the code points.  following(b) is how
\* many continuation bytes follow the lead byte b (0 when b cannot lead),
\* continues(b, j, x) whether x can be the j-th byte after the lead byte b.
\* An ill-formed sequence becomes one replacement character (65533) up to
\* its last valid byte.
RECURSIVE utf8_decode(_)
utf8_decode(bytes) ==
    LET following(b) ==
            IF b >= 194 /\ b <= 223 THEN 1
            ELSE IF b >= 224 /\ b <= 239 THEN 2
            ELSE IF b >= 240 /\ b <= 244 THEN 3
            ELSE 0
        continues(b, j, x) ==
            IF j > 1 THEN x >= 128 /\ x <= 191
            ELSE /\ x >= (IF b = 224 THEN 160 ELSE IF b = 240 THEN 144 ELSE 128)
                 /\ x <= (IF b = 237 THEN 159 ELSE IF b = 244 THEN 143 ELSE 191)
        code_point(i, n) ==
            IF n = 1
            THEN (bytes[i] - 192) * 64 + (bytes[i + 1] - 128)
            ELSE IF n = 2
            THEN (bytes[i] - 224) * 4096 + (bytes[i + 1] - 128) * 64
                   + (bytes[i + 2] - 128)
            ELSE (bytes[i] - 240) * 262144 + (bytes[i + 1] - 128) * 4096
                   + (bytes[i + 2] - 128) * 64 + (bytes[i + 3] - 128)
        unit(i, n, valid) ==
            Slice(bytes, 1, i - 1)
              \o <<IF n > 0 /\ valid = n THEN code_point(i, n) ELSE 65533>>
              \o utf8_decode(From(bytes, i + valid + 1))
        lead(i, n) ==
            unit(i, n,
                 Max({k \in 0..n :
                         \A j \in 1..k : /\ i + j <= Len(bytes)
                                         /\ continues(bytes[i], j, bytes[i + j])}))
        first(i) == IF i > Len(bytes) THEN bytes ELSE lead(i, following(bytes[i]))
    IN  first(Min({i \in 1..Len(bytes) : bytes[i] >= 128} \cup {Len(bytes) + 1}))

\* urllib.parse.unquote: every run of ASCII characters is unquoted to bytes
\* and the bytes are decoded as UTF-8; the other characters stay.
RECURSIVE unquote(_)
unquote(string) ==
    LET text(code_points) == [k \in 1..Len(code_points) |-> chr(code_points[k])]
        runs(end) ==
            text(utf8_decode(unquote_to_bytes(Slice(string, 1, end - 1))))
              \o (IF end > Len(string) THEN <<>>
                  ELSE <<string[end]>> \o unquote(From(string, end + 1)))
    IN  IF "%" \notin Range(string) THEN string
        ELSE runs(Min({i \in 1..Len(string) : string[i] \notin ASCII} \cup {Len(string) + 1}))

\* One name=value field of urllib.parse.parse_qsl (keep_blank_values=False):
\* <<>> when the field is dropped, else << <<name, value>> >>.
parse_qsl_field(name_value) ==
    LET pair(name, value) ==
            IF name_value = <<>> \/ value = <<>> THEN <<>>
            ELSE <<[k \in 1..2 |->
                       unquote(replace_char(IF k = 1 THEN name ELSE value, "+", " "))]>>
        at(e) == IF e = 0 THEN <<>>
                 ELSE pair(Slice(name_value, 1, e - 1), From(name_value, e + 1))
    IN  at(find(name_value, <<"=">>, 1))

RECURSIVE parse_qsl_fields(_)
parse_qsl_fields(fields) ==
    IF fields = <<>> THEN <<>>
    ELSE parse_qsl_field(Head(fields)) \o parse_qsl_fields(Tail(fields))

\* urllib.parse.parse_qsl(qs): the <<name, value>> pairs in order.
parse_qsl(qs) == parse_qsl_fields(split(qs, "&"))

\* parse_qs(qs).get(name): the values of `name` in order (<<>> when absent).
params_get(pairs, name) ==
    LET hits == SelectSeq(pairs, LAMBDA nv : nv[1] = name)
    IN  [i \in 1..Len(hits) |-> hits[i][2]]

(***************************************************************************)
(* The redirect-link parser (scrape_links.py 112-159).                     *)
(***************************************************************************)
\* _iter_redirect_urls: every occurrence of the prefix, up to the first
\* white space or ')', the search resuming where the candidate ended.
RECURSIVE iter_redirect_urls(_, _)
iter_redirect_urls(page_text, start) ==
    LET upto(idx, end) ==
            <<SubSeq(page_text, idx, end - 1)>> \o iter_redirect_urls(page_text, end)
        ending(stops) == IF stops = {} THEN Len(page_text) + 1 ELSE Min(stops)
        from(idx) ==
            IF idx = 0 THEN <<>>
            ELSE upto(idx, ending({e \in idx..Len(page_text) :
                                      isspace(page_text[e]) \/ page_text[e] = ")"}))
    IN  from(find(page_text, REDIRECT_PREFIX, start))

Q_KEY == <<"q">>
EVENT_KEY == <<"e","v","e","n","t">>

events_priority ==
    << <<"c","h","a","n","n","e","l","_","h","e","a","d","e","r">>,
       <<"c","h","a","n","n","e","l","_","a","b","o","u","t","_",
         "m","e","t","a","d","a","t","a">>,
       <<"c","h","a","n","n","e","l","_","d","e","s","c","r","i","p","t","i","o","n">> >>

\* event_order.get(event, len(events_priority)), 0-based as in the code.
event_rank(event) ==
    IF \E i \in 1..Len(events_priority) : events_priority[i] = event
    THEN (CHOOSE i \in 1..Len(events_priority) : events_priority[i] = event) - 1
    ELSE Len(events_priority)

\* Lines 134-142: the (event, dest, idx) of each candidate that has a q.
\* The netloc of a candidate is that of REDIRECT_PREFIX, so the urlparse of
\* line 135 does not raise.
RECURSIVE structured_from(_, _)
structured_from(raw_urls, idx) ==
    IF raw_urls = <<>> THEN <<>>
    ELSE LET item(targets, tags) ==
                 IF targets = <<>> THEN <<>>
                 ELSE <<[event |-> IF tags = <<>> THEN <<>> ELSE tags[1],
                         dest |-> unquote(targets[1]),
                         idx |-> idx]>>
             of_params(params) ==
                 item(params_get(params, Q_KEY), params_get(params, EVENT_KEY))
         IN  of_params(parse_qsl(urlparse(Head(raw_urls), <<>>).query))
               \o structured_from(Tail(raw_urls), idx + 1)

structured_of(page_text) == structured_from(iter_redirect_urls(page_text, 1), 0)

\* The sort key without the priority of the event tag.
sort_key_discovery_only(item) == <<0, item.idx>>

\* The sort key of lines 146-149 and its lexicographic order.
sort_key(item) == <<event_rank(item.event), item.idx>>
key_less(a, b) == a[1] < b[1] \/ (a[1] = b[1] /\ a[2] < b[2])

\* list.sort(key=...): a stable sort, here by insertion.
RECURSIVE insert_sorted(_, _)
insert_sorted(sorted, item) ==
    IF sorted = <<>> THEN <<item>>
    ELSE IF key_less(sort_key(item), sort_key(Head(sorted)))
    THEN <<item>> \o sorted
    ELSE <<Head(sorted)>> \o insert_sorted(Tail(sorted), item)

RECURSIVE sort_structured(_)
sort_structured(items) ==
    IF items = <<>> THEN <<>>
    ELSE insert_sorted(sort_structured(Slice(items, 1, Len(items) - 1)),
                       items[Len(items)])

\* The loop of lines 152-159 without the `dest in seen` test.
RECURSIVE keep_all_links(_, _)
keep_all_links(items, links) ==
    IF items = <<>> THEN links
    ELSE IF Head(items).dest = <<>> THEN keep_all_links(Tail(items), links)
    ELSE keep_all_links(Tail(items), Append(links, Head(items).dest))

\* Lines 152-159: the first occurrence of each non-empty destination.
RECURSIVE dedupe_links(_, _)
dedupe_links(items, links) ==
    IF items = <<>> THEN links
    ELSE IF Head(items).dest = <<>> \/ Head(items).dest \in Range(links)
    THEN dedupe_links(Tail(items), links)
    ELSE dedupe_links(Tail(items), Append(links, Head(items).dest))

parse_channel_links(page_text) ==
    dedupe_links(sort_structured(structured_of(page_text)), <<>>)

(***************************************************************************)
(* The subscription reader (scrape_links.py 29-79).  A CSV file is its     *)
(* header row (fieldnames) and its data rows, each a list of fields, as    *)
(* csv.reader delivers them; NoFile is a path that does not exist.         *)
(***************************************************************************)
NoFile == [exists |-> FALSE, fieldnames |-> <<>>, rows |-> <<>>]
CsvFile(fieldnames, rows) == [exists |-> TRUE, fieldnames |-> fieldnames, rows |-> rows]

\* csv.DictReader.__next__: the (key, value) items of a row's dict in
\* order.  A short row is padded with None (restval); the surplus fields of
\* a long row are stored under the key None (restkey).  Of the columns
\* that share a name the dict keeps one item, where the first of them
\* stands, with the value of the last.
dict_row(fieldnames, fields) ==
    LET value(i) == IF i <= Len(fields) THEN fields[i] ELSE None
        last(i) == Max({j \in 1..Len(fieldnames) : fieldnames[j] = fieldnames[i]})
        items(firsts) ==
            [k \in 1..Len(firsts) |-> <<fieldnames[firsts[k]], value(last(firsts[k]))>>]
    IN  items(SelectSeq([i \in 1..Len(fieldnames) |-> i],
                        LAMBDA i : \A j \in 1..(i - 1) : fieldnames[j] /= fieldnames[i]))
          \o (IF Len(fields) > Len(fieldnames)
              THEN << <<None, From(fields, Len(fieldnames) + 1)>> >>
              ELSE <<>>)

\* _normalise_column_name
normalise_column_name(name) == replace_char(lower(strip(name)), "_", " ")

TITLE_KEYS == { <<"c","h","a","n","n","e","l"," ","t","i","t","l","e">>, <<"t","i","t","l","e">> }
URL_KEYS == { <<"c","h","a","n","n","e","l"," ","u","r","l">>, <<"u","r","l">> }
ID_KEYS == { <<"c","h","a","n","n","e","l"," ","i","d">>, <<"i","d">> }

\* The AttributeError of None.strip() in _normalise_column_name.
Raised == <<"<AttributeError>">>

\* SubscriptionReader._get_first: the value of the first column whose
\* normalised name is in keys, None when there is none; the key None of a
\* long row, when the scan reaches it, raises.
RECURSIVE get_first(_, _)
get_first(row, keys) ==
    IF row = <<>> THEN None
    ELSE IF Head(row)[1] = None THEN Raised
    ELSE IF normalise_column_name(Head(row)[1]) \in keys THEN Head(row)[2]
    ELSE get_first(Tail(row), keys)

\* Whether _row_to_subscription raises on the row.
row_raises(row) ==
    Raised \in {get_first(row, TITLE_KEYS), get_first(row, URL_KEYS), get_first(row, ID_KEYS)}

\* Lines 68-69: the URL, synthesised from the channel id when there is none.
row_url(row) ==
    LET synthesised(url, channel_id) ==
            IF ~truthy(url) /\ truthy(channel_id)
            THEN YOUTUBE_ORIGIN \o <<"/","c","h","a","n","n","e","l","/">> \o strip(channel_id)
            ELSE url
    IN  synthesised(get_first(row, URL_KEYS), get_first(row, ID_KEYS))

\* SubscriptionReader._row_to_subscription: <<>> for a dropped row (None),
\* else the one Subscription.
row_to_subscription(row) ==
    LET subscription(title, url, channel_id) ==
            IF ~truthy(title) \/ ~truthy(url) THEN <<>>
            ELSE <<[title |-> strip(title), url |-> strip(url),
                    channel_id |-> channel_id]>>
    IN  subscription(get_first(row, TITLE_KEYS), row_url(row), get_first(row, ID_KEYS))

\* list(csv.DictReader(handle)): blank lines are skipped.
RECURSIVE dict_rows(_, _)
dict_rows(fieldnames, rows) ==
    IF rows = <<>> THEN <<>>
    ELSE IF Head(rows) = <<>> THEN dict_rows(fieldnames, Tail(rows))
    ELSE <<dict_row(fieldnames, Head(rows))>> \o dict_rows(fieldnames, Tail(rows))

RECURSIVE subscriptions_of(_)
subscriptions_of(rows) ==
    IF rows = <<>> THEN <<>>
    ELSE row_to_subscription(Head(rows)) \o subscriptions_of(Tail(rows))

\* SubscriptionReader.read: the subscriptions, or the exception it raises.
read(csv) ==
    LET of_rows(rows) ==
            IF \E i \in 1..Len(rows) : row_raises(rows[i])
            THEN [error |-> "AttributeError", subscriptions |-> <<>>]
            ELSE [error |-> "", subscriptions |-> subscriptions_of(rows)]
    IN  IF ~csv.exists
        THEN [error |-> "FileNotFoundError", subscriptions |-> <<>>]
        ELSE of_rows(dict_rows(csv.fieldnames, csv.rows))

(***************************************************************************)
(* The link filter of scrape_links (scrape_links.py 172, 191-196).  The    *)
(* url_filters argument is [given, terms]: given is FALSE for None.        *)
(***************************************************************************)
NoFilters == [given |-> FALSE, terms |-> <<>>]
Filters(terms) == [given |-> TRUE, terms |-> terms]

\* Line 172 without the lower() of the terms.
filters_not_lowered(url_filters) ==
    IF url_filters.given /\ url_filters.terms /= <<>> THEN url_filters ELSE NoFilters

\* Line 172: the lowered terms; None (given = FALSE) for None and for [].
lowered_filters(url_filters) ==
    IF url_filters.given /\ url_filters.terms /= <<>>
    THEN Filters([i \in 1..Len(url_filters.terms) |-> lower(url_filters.terms[i])])
    ELSE NoFilters

link_matches(link, lowered) ==
    \E i \in 1..Len(lowered.terms) : contains(lower(link), lowered.terms[i])

\* Lines 191-196.
filter_links(links, lowered) ==
    IF lowered.given
    THEN SelectSeq(links, LAMBDA link : link_matches(link, lowered))
    ELSE links

\* Lines 190-204: the record appended for a fetched page.  The call of
\* line 197 is the call about_url made at line 181 for the subscription, so
\* it does not raise where line 181 did not; channel_url is ValueError if
\* it does.
result_record(sub, page, url_filters) ==
    LET record(canonical_url) ==
            [channel_title |-> sub.title,
             channel_url |-> IF canonical_url = ValueError THEN ValueError
                             ELSE IF truthy(canonical_url) THEN canonical_url
                             ELSE sub.url,
             links |-> filter_links(parse_channel_links(page), lowered_filters(url_filters))]
    IN  record(normalise_channel_url(sub.url, sub.channel_id))

(***************************************************************************)
(* State.  The run of main: its arguments and files, its program position  *)
(* and locals, and a log of what scrape_links did.  The norm_, lk_ and rd_ *)
(* variables hold the argument and result of one call of                   *)
(* normalise_channel_url, of parse_channel_links followed by the filter,   *)
(* and of SubscriptionReader.read.                                         *)
(***************************************************************************)
VARIABLES
    csv_file,      \* the file at args.subscriptions_csv
    arg_filters,   \* args.filters
    arg_delay,     \* max(args.delay, 0.0): 0 or a positive delay
    outfile,       \* the file at output_path: [exists, complete, data]
    tmpfiles,      \* the temporary files beside the output, oldest first;
                   \* write_results writes the last one (a new name each time)
    pc,            \* the position of main / scrape_links / write_results
    subs,          \* subscriptions
    index,         \* the loop index of scrape_links (1-based)
    results,       \* the results list of scrape_links
    fetched_page,  \* page_text
    wcaller,       \* who called write_results: "initial", "update", "final"
    wdata,         \* the data argument of write_results
    exit_code,     \* "running", "0", "1", or the name of an uncaught exception
    log,           \* what scrape_links did: [kind, index] events in order
    caught_at,     \* where a KeyboardInterrupt was caught ("" if none was)
    snapshot,      \* results when the KeyboardInterrupt was caught
    fatal_in_try,  \* whether an uncaught KeyboardInterrupt arrived inside the try
    replaced,      \* how many os.replace calls have completed
    norm_url, norm_id, norm_out, norm_again, norm_pc,
    lk_page, lk_filters, lk_parsed, lk_links, lk_pc,
    rd_csv, rd_out, rd_pc

mainVars == <<csv_file, arg_filters, arg_delay, outfile, tmpfiles, pc, subs, index,
              results, fetched_page, wcaller, wdata, exit_code, log, caught_at,
              snapshot, fatal_in_try, replaced>>
normVars == <<norm_url, norm_id, norm_out, norm_again, norm_pc>>
lkVars == <<lk_page, lk_filters, lk_parsed, lk_links, lk_pc>>
rdVars == <<rd_csv, rd_out, rd_pc>>
vars == <<mainVars, normVars, lkVars, rdVars>>

Absent == [exists |-> FALSE, complete |-> FALSE, data |-> <<>>]

MainIdle ==
    /\ csv_file = NoFile /\ arg_filters = NoFilters /\ arg_delay = 0
    /\ outfile = Absent /\ tmpfiles = <<>> /\ pc = "idle" /\ subs = <<>>
    /\ index = 0 /\ results = <<>> /\ fetched_page = <<>> /\ wcaller = ""
    /\ wdata = <<>> /\ exit_code = "running" /\ log = <<>>
    /\ caught_at = "" /\ snapshot = <<>> /\ fatal_in_try = FALSE /\ replaced = 0
NormIdle ==
    /\ norm_url = <<>> /\ norm_id = None /\ norm_out = None
    /\ norm_again = None /\ norm_pc = "idle"
LinksIdle ==
    /\ lk_page = <<>> /\ lk_filters = NoFilters /\ lk_parsed = <<>>
    /\ lk_links = <<>> /\ lk_pc = "idle"
ReadIdle ==
    /\ rd_csv = NoFile /\ rd_out = [error |-> "", subscriptions |-> <<>>]
    /\ rd_pc = "idle"

(***************************************************************************)
(* normalise_channel_url on its own: one call, then a call on its result.  *)
(***************************************************************************)
\* How many "/about" segments an input path may end in.
MaxAbout == 2

EXAMPLE_COM == <<"h","t","t","p","s",":","/","/","e","x","a","m","p","l","e",".","c","o","m">>
M_YOUTUBE_COM == <<"h","t","t","p",":","/","/","m",".","Y","o","u","T","u","b","e",".","c","o","m">>
PATH_C_F == <<"/","c","/","f">>
PATH_CHANNEL_U1 == <<"/","c","h","a","n","n","e","l","/","U","1">>
ID_U1 == <<"U","1">>

RECURSIVE repeat(_, _)
repeat(s, n) == IF n = 0 THEN <<>> ELSE s \o repeat(s, n - 1)

NormUrls ==
    {prefix \o base \o repeat(SLASH_ABOUT, k) \o trail :
        prefix \in {YOUTUBE_ORIGIN, M_YOUTUBE_COM, EXAMPLE_COM, <<>>},
        base \in {<<>>, PATH_C_F, PATH_C_F \o <<"/">>, PATH_CHANNEL_U1},
        k \in 0..MaxAbout,
        trail \in {<<>>, <<"/">>}}
    \cup {<<" ">>, <<"c","/","f">>, <<" ">> \o YOUTUBE_ORIGIN \o PATH_C_F \o <<" ">>,
          <<"m","a","i","l","t","o",":","x">>,
          YOUTUBE_ORIGIN \o PATH_C_F \o <<"?","x","#","y">>, <<>>}
    \cup {<<"\f">> \o YOUTUBE_ORIGIN \o PATH_C_F \o <<chr(160)>>,
          YOUTUBE_ORIGIN \o <<"/","c","/","\t","f">>,
          <<"f","t","p",":","/","/">> \o YOUTUBE \o <<".","c","o","m","/","a",";","b">>,
          HTTPS \o <<":","/","/","[">> \o YOUTUBE \o <<".","c","o","m","/","x">>,
          <<"/","/","[",":",":","1","]","/">> \o YOUTUBE,
          <<"/","/","[","v","1",".">> \o YOUTUBE \o <<"]">> \o PATH_C_F}
NormIds == {None, <<>>, ID_U1, <<" ">> \o ID_U1 \o <<"\f">>}

InitNorm ==
    /\ MainIdle /\ LinksIdle /\ ReadIdle
    /\ norm_url \in NormUrls
    /\ norm_id \in NormIds
    /\ norm_out = None
    /\ norm_again = None
    /\ norm_pc = "start"

Normalise ==
    /\ norm_pc = "start"
    /\ norm_out' = normalise_channel_url(norm_url, norm_id)
    /\ norm_pc' = "once"
    /\ UNCHANGED <<norm_url, norm_id, norm_again, mainVars, lkVars, rdVars>>

NormaliseAgain ==
    /\ norm_pc = "once"
    /\ norm_out \notin {None, ValueError}
    /\ norm_again' = normalise_channel_url(norm_out, norm_id)
    /\ norm_pc' = "twice"
    /\ UNCHANGED <<norm_url, norm_id, norm_out, mainVars, lkVars, rdVars>>

NextNorm == Normalise \/ NormaliseAgain
SpecNorm == InitNorm /\ [][NextNorm]_vars

\* The host test of line 93 on the netloc of the (resolved) input.
is_youtube_host(url) == contains(lower(resolved_parse(url).netloc), YOUTUBE)

\* Whether urllib.parse rejects the netloc of the stripped URL: a bracket
\* without its partner, a bracketed host that is neither an IPv6 nor an
\* IPvFuture address, or a character that NFKC turns into a delimiter.
netloc_rejected(url) == netloc_raises(urlsplit(strip(url), HTTPS).netloc)

\* A result of the form https://www.youtube.com/<path>.
canonical_form(u) ==
    /\ startswith(u, YOUTUBE_ORIGIN)
    /\ (Len(u) = Len(YOUTUBE_ORIGIN) \/ u[Len(YOUTUBE_ORIGIN) + 1] = "/")

\* C6: normalise_channel_url is idempotent: applied to its own result u
\* (with the same channel id) it returns u again.
C6_Idempotent ==
    norm_pc = "twice" => norm_again = norm_out

\* C6: a path that ends in two "/about" segments was normalised twice.
C6_RepeatedAbout ==
    /\ norm_pc = "twice"
    /\ endswith(rstrip_char(resolved_parse(norm_url).path, "/"), SLASH_ABOUT \o SLASH_ABOUT)

\* C7 as stated: no result iff the host of the (resolved) input is not a
\* YouTube host; a result has the form https://www.youtube.com/<path>; with
\* a channel id supplied and no "/channel/" in the computed path the result
\* is https://www.youtube.com/channel/<id>.
C7_NoneIffNotYouTube ==
    norm_pc /= "start" =>
        /\ (norm_out = None) <=> ~is_youtube_host(norm_url)
        /\ norm_out /= None => canonical_form(norm_out)
        /\ (norm_out /= None /\ norm_id /= None
              /\ ~contains(channel_path(resolved_parse(norm_url)), SLASH_CHANNEL_SLASH))
             => norm_out = YOUTUBE_ORIGIN \o <<"/","c","h","a","n","n","e","l","/">> \o norm_id

\* C7 amended: ValueError is raised iff the URL is not empty and
\* urllib.parse rejects the netloc of the stripped URL; otherwise there is
\* no result iff the URL is empty or the netloc of the (resolved) input
\* does not contain "youtube"; a result has the form
\* https://www.youtube.com/<path>; with a non-empty channel id and no
\* "/channel/" in the computed path the result is
\* https://www.youtube.com/channel/<id stripped of white space>.
C7_NoneIffEmptyOrNotYouTube ==
    norm_pc /= "start" =>
        /\ (norm_out = ValueError) <=> (norm_url /= <<>> /\ netloc_rejected(norm_url))
        /\ norm_out /= ValueError =>
            /\ (norm_out = None) <=> (norm_url = <<>> \/ ~is_youtube_host(norm_url))
            /\ norm_out /= None => canonical_form(norm_out)
            /\ (norm_out /= None /\ norm_id /= None /\ norm_id /= <<>>
                  /\ ~contains(channel_path(resolved_parse(norm_url)), SLASH_CHANNEL_SLASH))
                 => norm_out = YOUTUBE_ORIGIN \o <<"/","c","h","a","n","n","e","l","/">> \o strip(norm_id)

\* C7: a relative URL was resolved and forced to the channel-id form.
C7_ForcedChannelId ==
    /\ norm_pc /= "start"
    /\ urlparse(strip(norm_url), HTTPS).netloc = <<>>
    /\ norm_id = <<" ">> \o ID_U1 \o <<"\f">>
    /\ norm_out = YOUTUBE_ORIGIN \o PATH_CHANNEL_U1

(***************************************************************************)
(* parse_channel_links and the filter on their own (lines 190-196).        *)
(***************************************************************************)
\* How many pieces of text a page is put together from.
MaxCands == 3

EV_HEADER == events_priority[1]
EV_METADATA == events_priority[2]
EV_DESCRIPTION == events_priority[3]
Q_EQ == <<"q","=">>
EVENT_EQ == <<"e","v","e","n","t","=">>

\* Redirect candidates, each with the white space or ')' that follows it on
\* the page (the last two end with the page or the next candidate).
LinkPieces ==
    { REDIRECT_PREFIX \o <<"?">> \o EVENT_EQ \o EV_HEADER \o <<"&">> \o Q_EQ \o <<"a", " ">>,
      REDIRECT_PREFIX \o <<"?">> \o EVENT_EQ \o EV_DESCRIPTION \o <<"&">> \o Q_EQ \o <<"b", chr(160)>>,
      REDIRECT_PREFIX \o <<"?">> \o Q_EQ \o <<"b", " ">>,
      REDIRECT_PREFIX \o <<"?">> \o EVENT_EQ \o EV_METADATA \o <<"&">> \o Q_EQ
          \o <<"h","t","t","p","s","%","3","A","%","2","F","%","2","F","%","C","3","%","A","9",")">>,
      REDIRECT_PREFIX \o <<"?">> \o Q_EQ \o <<"B","&">> \o EVENT_EQ \o <<"z","z","\f">>,
      REDIRECT_PREFIX \o <<"?">> \o EVENT_EQ \o EV_HEADER,
      REDIRECT_PREFIX \o <<"?">> \o Q_EQ \o <<"%","2","5","6","3","&">> \o Q_EQ \o <<"a", " ">> }

RECURSIVE PagesOf(_)
PagesOf(n) ==
    IF n = 0 THEN {<<>>}
    ELSE LET shorter == PagesOf(n - 1)
         IN  shorter \cup {page \o piece : page \in shorter, piece \in LinkPieces}

LinkFilters ==
    {NoFilters, Filters(<<>>), Filters(<< <<"B">> >>), Filters(<< <<"x">>, <<"É">> >>)}

InitLinks ==
    /\ MainIdle /\ NormIdle /\ ReadIdle
    /\ lk_page \in PagesOf(MaxCands)
    /\ lk_filters \in LinkFilters
    /\ lk_parsed = <<>>
    /\ lk_links = <<>>
    /\ lk_pc = "fetched"

\* Line 190.
ParseLinks ==
    /\ lk_pc = "fetched"
    /\ lk_parsed' = parse_channel_links(lk_page)
    /\ lk_links' = lk_parsed'
    /\ lk_pc' = "parsed"
    /\ UNCHANGED <<lk_page, lk_filters, mainVars, normVars, rdVars>>

\* Lines 191-196.
FilterLinks ==
    /\ lk_pc = "parsed"
    /\ lk_links' = filter_links(lk_links, lowered_filters(lk_filters))
    /\ lk_pc' = "filtered"
    /\ UNCHANGED <<lk_page, lk_filters, lk_parsed, mainVars, normVars, rdVars>>

NextLinks == ParseLinks \/ FilterLinks
SpecLinks == InitLinks /\ [][NextLinks]_vars

\* The rank a tag has in the stated priority order.
TagRank(event) ==
    CASE event = <<"c","h","a","n","n","e","l","_","h","e","a","d","e","r">> -> 0
      [] event = <<"c","h","a","n","n","e","l","_","a","b","o","u","t","_",
                   "m","e","t","a","d","a","t","a">> -> 1
      [] event = <<"c","h","a","n","n","e","l","_","d","e","s","c","r","i","p","t","i","o","n">> -> 2
      [] OTHER -> 3

\* Whether candidate a comes before candidate b by rank, then discovery.
Precedes(a, b) ==
    \/ TagRank(a.event) < TagRank(b.event)
    \/ (TagRank(a.event) = TagRank(b.event) /\ a.idx < b.idx)

\* Among the candidates that carry destination dest, the one that precedes
\* the others (the one the de-duplication keeps).
KeptCandidate(candidates, dest) ==
    LET mine == {c \in Range(candidates) : c.dest = dest}
    IN  CHOOSE c \in mine : \A d \in mine : d = c \/ Precedes(c, d)

\* C4: the parsed links are ordered by the tag rank of their kept
\* candidates (header < about_metadata < description < anything else), and
\* by discovery order among candidates of equal rank.
C4_PriorityThenDiscovery ==
    lk_pc = "parsed" =>
        LET candidates == structured_of(lk_page)
            kept == [i \in 1..Len(lk_parsed) |-> KeptCandidate(candidates, lk_parsed[i])]
        IN  \A i, j \in 1..Len(lk_parsed) : i < j => Precedes(kept[i], kept[j])

\* C4: a description link, a header link and an untagged link, found in
\* that order, came out as header, description, untagged.
C4_HeaderOvertakes ==
    /\ lk_pc = "parsed"
    /\ LET candidates == structured_of(lk_page)
       IN  /\ Len(candidates) = 3
           /\ candidates[1].event = EV_DESCRIPTION
           /\ candidates[2].event = EV_HEADER
           /\ candidates[3].event = <<>>
           /\ lk_parsed = <<candidates[2].dest, candidates[1].dest, candidates[3].dest>>

NoDuplicates(seq) == \A i, j \in 1..Len(seq) : i /= j => seq[i] /= seq[j]

\* The first position of dest in a sequence of candidates.
FirstPos(candidates, dest) ==
    Min({k \in 1..Len(candidates) : candidates[k].dest = dest})

\* C5: the links, parsed or filtered, hold no empty string and nothing
\* twice; the parsed links are the destinations of the candidates, each
\* once, in the order of their first occurrence among the sorted candidates.
C5_NoDuplicateLinks ==
    /\ lk_pc /= "fetched" => NoDuplicates(lk_links) /\ <<>> \notin Range(lk_links)
    /\ lk_pc = "parsed" =>
        LET sorted == sort_structured(structured_of(lk_page))
            first == [i \in 1..Len(lk_parsed) |-> FirstPos(sorted, lk_parsed[i])]
        IN  /\ Range(lk_parsed) = {sorted[k].dest : k \in 1..Len(sorted)}
            /\ \A i, j \in 1..Len(lk_parsed) : i < j => first[i] < first[j]

\* C5: a destination that two candidates carry was parsed and filtered.
C5_DuplicateCollapsed ==
    /\ lk_pc = "filtered"
    /\ Len(lk_parsed) >= 2
    /\ Len(lk_links) >= 1
    /\ LET candidates == structured_of(lk_page)
       IN  \E i, j \in 1..Len(candidates) :
               i /= j /\ candidates[i].dest = candidates[j].dest

\* Whether term occurs in link, letter case ignored.
ContainsIgnoringCase(link, term) ==
    \E k \in 1..(Len(link) - Len(term) + 1) :
        \A m \in 1..Len(term) : lower_char(link[k + m - 1]) = lower_char(term[m])

\* C8: with filter terms given, the links are the parsed links that contain
\* at least one term, case ignored, in parsed order; with no filters (None
\* or an empty list) they are the parsed links.
C8_FilterKeepsMatches ==
    lk_pc = "filtered" =>
        lk_links =
            IF lk_filters.given /\ lk_filters.terms /= <<>>
            THEN SelectSeq(lk_parsed,
                           LAMBDA link : \E t \in 1..Len(lk_filters.terms) :
                               ContainsIgnoringCase(link, lk_filters.terms[t]))
            ELSE lk_parsed

\* C8: an upper-case term kept a lower-case link and dropped another link.
C8_FilterDropsAndKeeps ==
    /\ lk_pc = "filtered"
    /\ lk_filters = Filters(<< <<"B">> >>)
    /\ <<"b">> \in Range(lk_links)
    /\ Len(lk_links) < Len(lk_parsed)

(***************************************************************************)
(* SubscriptionReader.read on its own.                                     *)
(***************************************************************************)
\* How many data rows a CSV file holds.
MaxRows == 2

H_CHANNEL_ID == <<"C","h","a","n","n","e","l"," ","I","d">>
H_CHANNEL_URL == <<"C","h","a","n","n","e","l"," ","U","r","l">>
H_CHANNEL_TITLE == <<"C","h","a","n","n","e","l"," ","T","i","t","l","e">>
H_TITLE_UPPER == <<"T","I","T","L","E">>
H_URL_PADDED == <<" ","u","r","l"," ">>
H_CHANNEL_ID_SNAKE == <<"c","h","a","n","n","e","l","_","i","d">>
FOO == <<"F","o","o">>
BAR == <<"B","a","r">>
URL_C_F == YOUTUBE_ORIGIN \o PATH_C_F

\* The header of a Takeout export, the two-column header of spec section 8,
\* and a header in other spellings and another order.
ReadHeaders ==
    { <<H_CHANNEL_ID, H_CHANNEL_URL, H_CHANNEL_TITLE>>,
      <<H_CHANNEL_TITLE, H_CHANNEL_URL>>,
      <<H_CHANNEL_ID_SNAKE, H_URL_PADDED, H_TITLE_UPPER>> }

\* Data rows as lists of fields: complete, without URL, title only, URL
\* only, empty, padded with white space, short, and long.
ReadRows ==
    { <<ID_U1, URL_C_F, FOO>>,
      <<ID_U1, <<>>, FOO>>,
      <<<<>>, <<>>, FOO>>,
      <<<<>>, URL_C_F, <<>>>>,
      <<<<>>, <<>>, <<>>>>,
      <<<<" ">> \o ID_U1, <<" ">> \o URL_C_F \o <<" ">>, <<" ">> \o BAR \o <<" ">>>>,
      <<FOO>>,
      <<FOO, URL_C_F, BAR>> \o << <<"x">> >> }

RECURSIVE RowLists(_)
RowLists(n) ==
    IF n = 0 THEN {<<>>}
    ELSE LET shorter == RowLists(n - 1)
         IN  shorter \cup {Append(rows, row) : rows \in shorter, row \in ReadRows}

InitRead ==
    /\ MainIdle /\ NormIdle /\ LinksIdle
    /\ rd_csv \in {NoFile} \cup
                  {CsvFile(fieldnames, rows) : fieldnames \in ReadHeaders,
                                               rows \in RowLists(MaxRows)}
    /\ rd_out = [error |-> "", subscriptions |-> <<>>]
    /\ rd_pc = "start"

Read ==
    /\ rd_pc = "start"
    /\ rd_out' = read(rd_csv)
    /\ rd_pc' = "done"
    /\ UNCHANGED <<rd_csv, mainVars, normVars, lkVars>>

NextRead == Read
SpecRead == InitRead /\ [][NextRead]_vars

\* The field of a data row under the first column whose name, letter case
\* and underscores aside, is one of names; None when there is no such
\* column or the row is too short.
ColumnValue(fieldnames, fields, names) ==
    LET cols == {i \in 1..Len(fieldnames) : normalise_column_name(fieldnames[i]) \in names}
    IN  IF cols = {} \/ Min(cols) > Len(fields) THEN None ELSE fields[Min(cols)]

\* The title and URL the claim gives a row; the URL is made from the
\* channel id when the row has none.
RowTitle(fieldnames, fields) == ColumnValue(fieldnames, fields, TITLE_KEYS)
RowUrl(fieldnames, fields) ==
    LET url == ColumnValue(fieldnames, fields, URL_KEYS)
        id == ColumnValue(fieldnames, fields, ID_KEYS)
    IN  IF truthy(url) THEN url
        ELSE IF truthy(id) THEN YOUTUBE_ORIGIN \o <<"/","c","h","a","n","n","e","l","/">> \o strip(id)
        ELSE None

RECURSIVE ExpectedSubscriptions(_, _)
ExpectedSubscriptions(fieldnames, rows) ==
    IF rows = <<>> THEN <<>>
    ELSE (IF truthy(RowTitle(fieldnames, Head(rows))) /\ truthy(RowUrl(fieldnames, Head(rows)))
          THEN <<[title |-> strip(RowTitle(fieldnames, Head(rows))),
                  url |-> strip(RowUrl(fieldnames, Head(rows)))]>>
          ELSE <<>>)
         \o ExpectedSubscriptions(fieldnames, Tail(rows))

\* C9: read does not raise on a file that exists, and returns, in row
\* order, one Subscription (stripped title and URL) for every row that has
\* a title and a URL; the other rows are dropped.
C9_OneSubscriptionPerTitledRow ==
    (rd_pc = "done" /\ rd_csv.exists) =>
        /\ rd_out.error = ""
        /\ [i \in 1..Len(rd_out.subscriptions) |->
               [title |-> rd_out.subscriptions[i].title,
                url |-> rd_out.subscriptions[i].url]]
           = ExpectedSubscriptions(rd_csv.fieldnames, rd_csv.rows)

\* C9: a file whose rows are no longer than its header was read; on these
\* the result is the one the claim gives.
C9_ReadWithoutLongRows ==
    /\ rd_pc = "done"
    /\ rd_csv.exists
    /\ \A i \in 1..Len(rd_csv.rows) : Len(rd_csv.rows[i]) <= Len(rd_csv.fieldnames)
    /\ Len(rd_out.subscriptions) = 2
    /\ Len(rd_csv.rows) = 2

(***************************************************************************)
(* main (scrape_links.py 262-307) with scrape_links (162-226) and          *)
(* write_results (283-293).  Printing is a program position without        *)
(* effect on the state.  A KeyboardInterrupt may arrive at any position.   *)
(***************************************************************************)
\* How many data rows the subscriptions file of a run holds.
MaxSubs == 2

\* A channel row, and a row whose URL is not a YouTube URL (about_url
\* raises ValueError for it).
RowFoo == <<<<>>, URL_C_F \o <<"/">>, FOO>>
RowBar == <<<<>>, EXAMPLE_COM \o PATH_C_F, BAR>>

RECURSIVE MainRowLists(_)
MainRowLists(n) ==
    IF n = 0 THEN {<<>>}
    ELSE LET shorter == MainRowLists(n - 1)
         IN  shorter \cup {Append(rows, row) : rows \in shorter, row \in {RowFoo, RowBar}}

MainCsvs ==
    {NoFile, CsvFile(<<H_CHANNEL_TITLE, H_CHANNEL_URL>>, << <<FOO, URL_C_F, <<"x">>>> >>)}
    \cup {CsvFile(<<H_CHANNEL_ID, H_CHANNEL_URL, H_CHANNEL_TITLE>>, rows) :
             rows \in MainRowLists(MaxSubs)}

\* What a successful fetch may return: a page without links, and a page
\* with an untagged link to b followed by a header link to a.
MainPages ==
    { <<"x">>,
      REDIRECT_PREFIX \o <<"?">> \o Q_EQ \o <<"b", " ">>
        \o REDIRECT_PREFIX \o <<"?">> \o EVENT_EQ \o EV_HEADER \o <<"&">> \o Q_EQ \o <<"a", ")">> }

\* An output file left by an earlier run.
OldFile ==
    [exists |-> TRUE, complete |-> TRUE,
     data |-> <<[channel_title |-> <<"o","l","d">>, channel_url |-> <<>>, links |-> <<>>]>>]

Init ==
    /\ NormIdle /\ LinksIdle /\ ReadIdle
    /\ csv_file \in MainCsvs
    /\ arg_filters \in {NoFilters, Filters(<< <<"B">> >>)}
    /\ arg_delay \in {0, 1}
    /\ outfile \in {Absent, OldFile}
    /\ tmpfiles = <<>>
    /\ pc = "read"
    /\ subs = <<>>
    /\ index = 0
    /\ results = <<>>
    /\ fetched_page = <<>>
    /\ wcaller = ""
    /\ wdata = <<>>
    /\ exit_code = "running"
    /\ log = <<>>
    /\ caught_at = ""
    /\ snapshot = <<>>
    /\ fatal_in_try = FALSE
    /\ replaced = 0

Event(kind) == [kind |-> kind, index |-> index]

\* Lines 264-272: read the subscriptions; a missing file and an empty list
\* end main with 1, an exception of read other than FileNotFoundError is
\* not caught.
MainRead ==
    /\ pc = "read"
    /\ \E r \in {read(csv_file)} :
           IF r.error = "" /\ r.subscriptions /= <<>>
           THEN /\ subs' = r.subscriptions
                /\ pc' = "mkdir"
                /\ UNCHANGED exit_code
           ELSE /\ pc' = "exit"
                /\ exit_code' = IF r.error = "AttributeError" THEN "AttributeError" ELSE "1"
                /\ UNCHANGED subs
    /\ UNCHANGED <<csv_file, arg_filters, arg_delay, outfile, tmpfiles, index, results,
                   fetched_page, wcaller, wdata, log, caught_at, snapshot,
                   fatal_in_try, replaced, normVars, lkVars, rdVars>>

\* Lines 273-281 and 296: the output directory is made, or cannot be; then
\* write_results([]) is called.
Mkdir ==
    /\ pc = "mkdir"
    /\ \/ /\ pc' = "w_open"
          /\ wcaller' = "initial"
          /\ wdata' = <<>>
          /\ UNCHANGED exit_code
       \/ /\ pc' = "exit"
          /\ exit_code' = "1"
          /\ UNCHANGED <<wcaller, wdata>>
    /\ UNCHANGED <<csv_file, arg_filters, arg_delay, outfile, tmpfiles, subs, index,
                   results, fetched_page, log, caught_at, snapshot, fatal_in_try,
                   replaced, normVars, lkVars, rdVars>>

\* Lines 285-290, written in place: the output file itself is opened for writing.
WriteOpenInPlace ==
    /\ pc = "w_open"
    /\ outfile' = [exists |-> TRUE, complete |-> FALSE, data |-> <<>>]
    /\ tmpfiles' = Append(tmpfiles, [exists |-> TRUE, complete |-> FALSE, data |-> <<>>])
    /\ pc' = "w_dump"
    /\ UNCHANGED <<csv_file, arg_filters, arg_delay, subs, index, results,
                   fetched_page, wcaller, wdata, exit_code, log, caught_at, snapshot,
                   fatal_in_try, replaced, normVars, lkVars, rdVars>>

\* Lines 285-290: a new temporary file is opened, empty, beside the output;
\* NamedTemporaryFile gives it a new name, so a temporary file left by an
\* interrupted write stays where it is.
WriteOpen ==
    /\ pc = "w_open"
    /\ tmpfiles' = Append(tmpfiles, [exists |-> TRUE, complete |-> FALSE, data |-> <<>>])
    /\ pc' = "w_dump"
    /\ UNCHANGED <<csv_file, arg_filters, arg_delay, outfile, subs, index, results,
                   fetched_page, wcaller, wdata, exit_code, log, caught_at, snapshot,
                   fatal_in_try, replaced, normVars, lkVars, rdVars>>

\* Lines 291-292: json.dump, and the file is closed.
WriteDump ==
    /\ pc = "w_dump"
    /\ tmpfiles' = [tmpfiles EXCEPT ![Len(tmpfiles)] =
                       [exists |-> TRUE, complete |-> TRUE, data |-> wdata]]
    /\ pc' = "w_replace"
    /\ UNCHANGED <<csv_file, arg_filters, arg_delay, outfile, subs, index, results,
                   fetched_page, wcaller, wdata, exit_code, log, caught_at, snapshot,
                   fatal_in_try, replaced, normVars, lkVars, rdVars>>

\* Line 293: os.replace renames the temporary file just written over the
\* output, and write_results returns to its caller.
WriteReplace ==
    /\ pc = "w_replace"
    /\ outfile' = tmpfiles[Len(tmpfiles)]
    /\ tmpfiles' = SubSeq(tmpfiles, 1, Len(tmpfiles) - 1)
    /\ replaced' = replaced + 1
    /\ pc' = CASE wcaller = "initial" -> "call"
               [] wcaller = "update" -> "report"
               [] OTHER -> "print_saved"
    /\ UNCHANGED <<csv_file, arg_filters, arg_delay, subs, index, results,
                   fetched_page, wcaller, wdata, exit_code, log, caught_at, snapshot,
                   fatal_in_try, normVars, lkVars, rdVars>>

\* Lines 298 and 169-172: scrape_links is entered.
CallScrape ==
    /\ pc = "call"
    /\ results' = <<>>
    /\ index' = 0
    /\ pc' = "loop"
    /\ UNCHANGED <<csv_file, arg_filters, arg_delay, outfile, tmpfiles, subs,
                   fetched_page, wcaller, wdata, exit_code, log, caught_at, snapshot,
                   fatal_in_try, replaced, normVars, lkVars, rdVars>>

\* Line 174: the next subscription, or the return of line 226.
LoopNext ==
    /\ pc = "loop"
    /\ IF index < Len(subs)
       THEN /\ index' = index + 1
            /\ log' = Append(log, [kind |-> "attempt", index |-> index + 1])
            /\ pc' = "progress"
       ELSE /\ pc' = "returned"
            /\ UNCHANGED <<index, log>>
    /\ UNCHANGED <<csv_file, arg_filters, arg_delay, outfile, tmpfiles, subs, results,
                   fetched_page, wcaller, wdata, exit_code, caught_at, snapshot,
                   fatal_in_try, replaced, normVars, lkVars, rdVars>>

\* Lines 175-179: the progress line.
Progress ==
    /\ pc = "progress"
    /\ pc' = "about"
    /\ UNCHANGED <<csv_file, arg_filters, arg_delay, outfile, tmpfiles, subs, index,
                   results, fetched_page, wcaller, wdata, exit_code, log, caught_at,
                   snapshot, fatal_in_try, replaced, normVars, lkVars, rdVars>>

\* Lines 180-184: the about URL; on its ValueError the subscription is
\* skipped.
ResolveUrl ==
    /\ pc = "about"
    /\ IF about_url(subs[index]) = ValueError
       THEN /\ log' = Append(log, Event("skip_url"))
            /\ pc' = "loop"
       ELSE /\ pc' = "fetch"
            /\ UNCHANGED log
    /\ UNCHANGED <<csv_file, arg_filters, arg_delay, outfile, tmpfiles, subs, index,
                   results, fetched_page, wcaller, wdata, exit_code, caught_at,
                   snapshot, fatal_in_try, replaced, normVars, lkVars, rdVars>>

\* Lines 185-186: fetch_about_page returns a page.
FetchOk ==
    /\ pc = "fetch"
    /\ \E page \in MainPages : fetched_page' = page
    /\ log' = Append(log, Event("fetch_ok"))
    /\ pc' = "parse"
    /\ UNCHANGED <<csv_file, arg_filters, arg_delay, outfile, tmpfiles, subs, index,
                   results, wcaller, wdata, exit_code, caught_at, snapshot,
                   fatal_in_try, replaced, normVars, lkVars, rdVars>>

\* Lines 185-189 with the exception of the fetch left uncaught.
FetchFailRaises ==
    /\ pc = "fetch"
    /\ log' = Append(log, Event("fetch_fail"))
    /\ pc' = "exit"
    /\ exit_code' = "URLError"
    /\ UNCHANGED <<csv_file, arg_filters, arg_delay, outfile, tmpfiles, subs, index,
                   results, fetched_page, wcaller, wdata, caught_at, snapshot,
                   fatal_in_try, replaced, normVars, lkVars, rdVars>>

\* Lines 185-189: fetch_about_page raises; the subscription is skipped.
FetchFail ==
    /\ pc = "fetch"
    /\ log' = Append(log, Event("fetch_fail"))
    /\ pc' = "loop"
    /\ UNCHANGED <<csv_file, arg_filters, arg_delay, outfile, tmpfiles, subs, index,
                   results, fetched_page, wcaller, wdata, exit_code, caught_at,
                   snapshot, fatal_in_try, replaced, normVars, lkVars, rdVars>>

\* Lines 190-204: parse, filter, and append the record.
ParseAndAppend ==
    /\ pc = "parse"
    /\ results' = Append(results, result_record(subs[index], fetched_page, arg_filters))
    /\ pc' = "update"
    /\ UNCHANGED <<csv_file, arg_filters, arg_delay, outfile, tmpfiles, subs, index,
                   fetched_page, wcaller, wdata, exit_code, log, caught_at, snapshot,
                   fatal_in_try, replaced, normVars, lkVars, rdVars>>

\* Lines 205-206: on_update(list(results)), which is write_results.
Update ==
    /\ pc = "update"
    /\ wcaller' = "update"
    /\ wdata' = results
    /\ pc' = "w_open"
    /\ UNCHANGED <<csv_file, arg_filters, arg_delay, outfile, tmpfiles, subs, index,
                   results, fetched_page, exit_code, log, caught_at, snapshot,
                   fatal_in_try, replaced, normVars, lkVars, rdVars>>

\* Lines 207-219: the line about the links found.
Report ==
    /\ pc = "report"
    /\ pc' = "sleep"
    /\ UNCHANGED <<csv_file, arg_filters, arg_delay, outfile, tmpfiles, subs, index,
                   results, fetched_page, wcaller, wdata, exit_code, log, caught_at,
                   snapshot, fatal_in_try, replaced, normVars, lkVars, rdVars>>

\* Lines 220-221: the pause, unless this was the last subscription.
Sleep ==
    /\ pc = "sleep"
    /\ log' = IF arg_delay > 0 /\ index < Len(subs)
              THEN Append(log, Event("sleep")) ELSE log
    /\ pc' = "loop"
    /\ UNCHANGED <<csv_file, arg_filters, arg_delay, outfile, tmpfiles, subs, index,
                   results, fetched_page, wcaller, wdata, exit_code, caught_at,
                   snapshot, fatal_in_try, replaced, normVars, lkVars, rdVars>>

\* Lines 222-225: the handler of KeyboardInterrupt returns results.
Handler ==
    /\ pc = "handler"
    /\ pc' = "returned"
    /\ UNCHANGED <<csv_file, arg_filters, arg_delay, outfile, tmpfiles, subs, index,
                   results, fetched_page, wcaller, wdata, exit_code, log, caught_at,
                   snapshot, fatal_in_try, replaced, normVars, lkVars, rdVars>>

\* Line 305: write_results(results).
FinalWrite ==
    /\ pc = "returned"
    /\ wcaller' = "final"
    /\ wdata' = results
    /\ pc' = "w_open"
    /\ UNCHANGED <<csv_file, arg_filters, arg_delay, outfile, tmpfiles, subs, index,
                   results, fetched_page, exit_code, log, caught_at, snapshot,
                   fatal_in_try, replaced, normVars, lkVars, rdVars>>

\* Lines 306-307: main returns 0.
PrintSaved ==
    /\ pc = "print_saved"
    /\ pc' = "exit"
    /\ exit_code' = "0"
    /\ UNCHANGED <<csv_file, arg_filters, arg_delay, outfile, tmpfiles, subs, index,
                   results, fetched_page, wcaller, wdata, log, caught_at, snapshot,
                   fatal_in_try, replaced, normVars, lkVars, rdVars>>

\* The positions inside the try of lines 173-221, write_results included
\* when on_update called it.
InTry ==
    \/ pc \in {"loop", "progress", "about", "fetch", "parse", "update", "report", "sleep"}
    \/ (pc \in {"w_open", "w_dump", "w_replace"} /\ wcaller = "update")

\* A KeyboardInterrupt that no handler catches, wherever it arrives.
InterruptUncaught ==
    /\ pc \notin {"exit", "idle"}
    /\ pc' = "exit"
    /\ exit_code' = "KeyboardInterrupt"
    /\ fatal_in_try' = InTry
    /\ UNCHANGED <<csv_file, arg_filters, arg_delay, outfile, tmpfiles, subs, index,
                   results, fetched_page, wcaller, wdata, log, caught_at, snapshot,
                   replaced, normVars, lkVars, rdVars>>

\* A KeyboardInterrupt: inside the try it is caught (line 222), anywhere
\* else it ends main.  The temporary file being written stays behind
\* (delete=False), also when main goes on to the final write.
Interrupt ==
    \/ /\ InTry
       /\ pc' = "handler"
       /\ caught_at' = pc
       /\ snapshot' = results
       /\ UNCHANGED <<exit_code, fatal_in_try>>
       /\ UNCHANGED <<csv_file, arg_filters, arg_delay, outfile, tmpfiles, subs, index,
                      results, fetched_page, wcaller, wdata, log, replaced,
                      normVars, lkVars, rdVars>>
    \/ /\ ~InTry
       /\ pc \notin {"exit", "idle"}
       /\ pc' = "exit"
       /\ exit_code' = "KeyboardInterrupt"
       /\ fatal_in_try' = FALSE
       /\ UNCHANGED <<caught_at, snapshot>>
       /\ UNCHANGED <<csv_file, arg_filters, arg_delay, outfile, tmpfiles, subs, index,
                      results, fetched_page, wcaller, wdata, log, replaced,
                      normVars, lkVars, rdVars>>

Next ==
    \/ MainRead \/ Mkdir \/ WriteOpen \/ WriteDump \/ WriteReplace \/ CallScrape
    \/ LoopNext \/ Progress \/ ResolveUrl \/ FetchOk \/ FetchFail \/ ParseAndAppend
    \/ Update \/ Report \/ Sleep \/ Handler \/ FinalWrite \/ PrintSaved \/ Interrupt

Spec == Init /\ [][Next]_vars

(***************************************************************************)
(* Properties of the run of main.                                          *)
(***************************************************************************)
IsPrefix(a, b) == Len(a) <= Len(b) /\ SubSeq(b, 1, Len(a)) = a

EventsOf(kinds) == SelectSeq(log, LAMBDA e : e.kind \in kinds)
Attempts == EventsOf({"attempt"})
Outcomes == EventsOf({"skip_url", "fetch_fail", "fetch_ok"})
Fetched == EventsOf({"fetch_ok"})

\* The positions of scrape_links at which every callback called so far has
\* returned.
AfterCallback == {"loop", "progress", "about", "fetch", "parse", "report", "sleep"}

\* C1: once the initial write has completed, the output file exists and
\* holds a complete array that is a prefix of the results list, at most the
\* last record missing; whenever every callback called so far has returned
\* (also when the run was interrupted at such a point) and when main has
\* returned 0, it holds exactly the results.
C1_OutputIsCompletePrefix ==
    replaced >= 1 =>
        /\ outfile.exists
        /\ outfile.complete
        /\ IsPrefix(outfile.data, results)
        /\ Len(results) - Len(outfile.data) <= 1
        /\ (pc \in AfterCallback => outfile.data = results)
        /\ (caught_at \in AfterCallback => outfile.data = results)
        /\ (exit_code = "0" => outfile.data = results)

\* The run was interrupted while the second channel was fetched, after the
\* callback for the first had returned: the file holds the one record.
C1_InterruptedAfterFirstChannel ==
    /\ caught_at = "fetch"
    /\ index = 2
    /\ Len(results) = 1
    /\ outfile.data = results
    /\ pc = "handler"

\* What C2 says of each state: the subscriptions attempted are 1..index in
\* order, each once, each with at most one outcome; results holds, in
\* order, the records of the subscriptions fetched (the last one may not be
\* appended yet); a failure inside the loop does not end main; and a
\* return without interruption comes after every subscription was attempted
\* and holds one record per subscription fetched.
C2_Outcomes ==
    /\ Len(Attempts) = index
    /\ \A i \in 1..Len(Attempts) : Attempts[i].index = i
    /\ Len(Outcomes) \in {index - 1, index}
    /\ \A i \in 1..Len(Outcomes) : Outcomes[i].index = i
    /\ Len(results) \in {Len(Fetched) - 1, Len(Fetched)}
    /\ \A i \in 1..Len(results) : results[i].channel_title = subs[Fetched[i].index].title
    /\ (log /= <<>> => exit_code \in {"running", "0", "KeyboardInterrupt"})
    /\ (pc = "returned" /\ caught_at = ""
          => /\ index = Len(subs)
             /\ Len(Outcomes) = Len(subs)
             /\ Len(results) = Len(Fetched))

\* C2: whatever subscriptions fail to resolve or to fetch, scrape_links
\* goes on: every subscription is attempted once, in order, the results
\* returned are the records of the subscriptions fetched, in order, and
\* the results list only ever grows at its end.
C2_FailuresNeverAbort ==
    []C2_Outcomes /\ [][IsPrefix(results, results')]_vars

\* The fetch of the first of two subscriptions failed, the second was
\* fetched, and scrape_links returned the one record.
C2_SecondFetchedAfterFailure ==
    /\ pc = "returned"
    /\ caught_at = ""
    /\ Len(subs) = 2
    /\ [kind |-> "fetch_fail", index |-> 1] \in Range(log)
    /\ [kind |-> "fetch_ok", index |-> 2] \in Range(log)
    /\ Len(results) = 1
    /\ results[1].channel_title = subs[2].title

\* C3: a KeyboardInterrupt that arrives inside the loop is caught there and
\* never ends main; from then on results stays what it was (the records
\* appended so far), the only write that follows is the final one, of
\* exactly those records, and when main returns 0 the output file holds them.
C3_InterruptReturnsPartial ==
    /\ (exit_code = "KeyboardInterrupt" => ~fatal_in_try)
    /\ (caught_at /= ""
          => /\ results = snapshot
             /\ pc \in {"handler", "returned", "w_open", "w_dump", "w_replace",
                        "print_saved", "exit"}
             /\ (pc \in {"w_open", "w_dump", "w_replace", "print_saved"}
                   => wcaller = "final" /\ wdata = snapshot)
             /\ (exit_code = "0"
                   => outfile.exists /\ outfile.complete /\ outfile.data = snapshot))

\* The run was interrupted while the page of the second channel was parsed;
\* main has written the record of the first and returned 0.
C3_InterruptedWhileParsing ==
    /\ caught_at = "parse"
    /\ index = 2
    /\ Len(snapshot) = 1
    /\ exit_code = "0"
    /\ outfile.data = snapshot

FetchesAndSleeps == EventsOf({"fetch_ok", "fetch_fail", "sleep"})

\* C10: with a delay greater than 0, no two fetch attempts happen without
\* a pause between them.
C10_PauseBetweenFetches ==
    arg_delay > 0 =>
        \A i \in 1..(Len(FetchesAndSleeps) - 1) :
            ~ /\ FetchesAndSleeps[i].kind /= "sleep"
              /\ FetchesAndSleeps[i + 1].kind /= "sleep"

\* Two channels fetched with the pause between them, and none after the last.
C10_PausedAfterSuccess ==
    /\ arg_delay > 0
    /\ pc = "returned"
    /\ caught_at = ""
    /\ [i \in 1..Len(FetchesAndSleeps) |-> FetchesAndSleeps[i].kind]
         = <<"fetch_ok", "sleep", "fetch_ok">>

====
